---- MODULE Spec2Model ----
(***************************************************************************)
(* Weather cache and segment weather service of the Strava plugin          *)
(* (src/weather/service.js, src/weather/api.js, src/weather/config.js).    *)
(*                                                                         *)
(* Units: coordinates are integers in micro-degrees (1e-6 degree), rounded *)
(* coordinates in milli-degrees, Date.now() in milliseconds, timestamps in *)
(* seconds.  The clock starts one hour after the epoch, which keeps every  *)
(* millisecond value within 32 bits.                                       *)
(*                                                                         *)
(* chrome.storage.local is a FIFO of requests issued by the service        *)
(* worker: a request is served, and its callback run, when it reaches the  *)
(* head of the queue.  A promise continuation (the code after an await)    *)
(* runs in the same step as the callback that settles the promise.         *)
(***************************************************************************)
EXTENDS Integers, Sequences, FiniteSets, TLC

VARIABLES now, store, queue, call, callsMade, clear, probe, batch

vars == <<now, store, queue, call, callsMade, clear, probe, batch>>

----------------------------------------------------------------------------
(* Bounds *)

MaxCalls == 2
MaxClears == 1

(* two slots for calls of getWeatherImpact that are in flight together *)
Callers == {1, 2}

----------------------------------------------------------------------------
(* Program constants *)

CACHE_EXPIRATION == 48 * 60 * 60 * 1000
CACHE_PREFIX == "weather_data_"
WEATHER_CACHE_PREFIX == CACHE_PREFIX
SOURCE_TAG == "OpenWeatherMap via backend proxy"

(* JS undefined / null for a numeric argument *)
undefined == -1
Falsy(v) == v = undefined \/ v = 0

Now0 == 3600000
ClockValues ==
  {Now0, Now0 + 1, Now0 + CACHE_EXPIRATION, Now0 + CACHE_EXPIRATION + 1}

----------------------------------------------------------------------------
(* Inputs *)

Segments ==
  { [id |-> 1, start_latlng |-> <<38500000, -120200000>>,
               end_latlng   |-> <<38500400, -120200200>>] }

TimestampArgs == {undefined, 3700}

(* readings as the proxy returns them: temp, feels_like, wind_speed and    *)
(* wind_gust in tenths; the second one carries no wind_gust               *)
Readings ==
  { [temp |-> 200, feels_like |-> 190, humidity |-> 50, pressure |-> 101300,
     wind_speed |-> 50, wind_deg |-> 270, wind_gust |-> 80],
    [temp |-> 300, feels_like |-> 330, humidity |-> 80, pressure |-> 100000,
     wind_speed |-> 20, wind_deg |-> 90, wind_gust |-> undefined] }

----------------------------------------------------------------------------
(* generateCacheKey *)

(* Math.round of a value given in thousandths: floor(x + 0.5) *)
MathRound1000(u) == (u + 500) \div 1000

Abs(n) == IF n < 0 THEN -n ELSE n

(* Number-to-string of m/1000 as a template literal prints it *)
FracStr(f) ==
  IF f = 0 THEN ""
  ELSE IF f % 100 = 0 THEN "." \o ToString(f \div 100)
  ELSE IF f % 10 = 0 THEN
         "." \o ToString(f \div 100) \o ToString((f \div 10) % 10)
  ELSE "." \o ToString(f \div 100) \o ToString((f \div 10) % 10) \o ToString(f % 10)

MilliStr(m) ==
  (IF m < 0 THEN "-" ELSE "") \o ToString(Abs(m) \div 1000) \o FracStr(Abs(m) % 1000)

roundedLatOf(lat) == MathRound1000(lat)
roundedLngOf(lng) == MathRound1000(lng)
(* variant: rounds to the nearest hour instead of flooring *)
roundedTimestampOf_Nearest(timestamp) == ((timestamp + 1800) \div 3600) * 3600
(* variant: moves to the start of the following hour *)
roundedTimestampOf_NextHour(timestamp) == ((timestamp \div 3600) + 1) * 3600
roundedTimestampOf(timestamp) == (timestamp \div 3600) * 3600

KeyOfRounded(roundedLat, roundedLng, roundedTimestamp) ==
  WEATHER_CACHE_PREFIX \o MilliStr(roundedLat) \o "_" \o MilliStr(roundedLng)
     \o "_" \o ToString(roundedTimestamp)

generateCacheKey(lat, lng, timestamp) ==
  KeyOfRounded(roundedLatOf(lat), roundedLngOf(lng), roundedTimestampOf(timestamp))

----------------------------------------------------------------------------
(* Values *)

NoReading == [none |-> TRUE]
NoResult == [none |-> TRUE]
NoRequest == [kind |-> "none"]
NoKey == ""
NoProbe == [a |-> <<>>, b |-> <<>>, keyA |-> NoKey, keyB |-> NoKey, again |-> NoKey]

IdleCall ==
  [pc |-> "idle", entry |-> "none", segment |-> 0, timestampArg |-> undefined,
   useCache |-> TRUE, lat |-> 0, lng |-> 0, timestamp |-> undefined,
   cacheKey |-> NoKey, request |-> NoRequest, weatherData |-> NoReading,
   cached |-> FALSE, evicted |-> FALSE, cachedAt |-> 0, fetches |-> 0, sets |-> 0,
   result |-> NoResult, error |-> ""]

(* the request getEnhancedWeatherData sends to the proxy *)
RequestFor(lat, lng, timestamp) ==
  IF ~Falsy(timestamp)
    THEN [kind |-> "historical", lat |-> lat, lon |-> lng, dt |-> timestamp]
    ELSE [kind |-> "current", lat |-> lat, lon |-> lng, dt |-> undefined]

StorageOp(op, caller, keys, obj) ==
  [op |-> op, caller |-> caller, keys |-> keys, obj |-> obj]

NoObj == [data |-> NoReading, cachedAt |-> 0]

StoreSet(s, k, obj) == [x \in DOMAIN s \cup {k} |-> IF x = k THEN obj ELSE s[x]]
StoreRemove(s, ks) == [x \in DOMAIN s \ ks |-> s[x]]

StartsWith(k, prefix) ==
  /\ Len(k) >= Len(prefix)
  /\ SubSeq(k, 1, Len(prefix)) = prefix

----------------------------------------------------------------------------
(* Weather analysis (src/weather/analysis.js)                              *)
(*                                                                         *)
(* Units: wind speeds and temperatures of a reading are integers in tenths *)
(* (of m/s, of a degree Celsius); humidity in percent, pressure in         *)
(* hundredths of a hPa and wind direction in whole degrees.  Computed      *)
(* speeds, impacts and percentages are integers in millionths; air density *)
(* is in 1e-4 kg/m3.                                                       *)
(* Sines and cosines are taken from a table of thousandths over whole      *)
(* degrees, and a segment's bearing is the value of the code's formula for *)
(* its end points, to the nearest whole degree.                            *)

(* a / b rounded to the nearest integer, for b > 0 *)
DivRound(a, b) == (2 * a + b) \div (2 * b)

(* the JS remainder a % n, which takes the sign of a *)
JsRem(a, n) == IF a >= 0 THEN a % n ELSE -((-a) % n)

(* Math.round(1000 * Math.sin(d * Math.PI / 180)) for d = 0 .. 90 *)
SinTable ==
  << 0, 17, 35, 52, 70, 87, 105, 122, 139, 156, 174, 191, 208, 225, 242, 259,
     276, 292, 309, 326, 342, 358, 375, 391, 407, 423, 438, 454, 469, 485,
     500, 515, 530, 545, 559, 574, 588, 602, 616, 629, 643, 656, 669, 682,
     695, 707, 719, 731, 743, 755, 766, 777, 788, 799, 809, 819, 829, 839,
     848, 857, 866, 875, 883, 891, 899, 906, 914, 921, 927, 934, 940, 946,
     951, 956, 961, 966, 970, 974, 978, 982, 985, 988, 990, 993, 995, 996,
     998, 999, 999, 1000, 1000 >>

(* Math.sin / Math.cos of a whole number of degrees, in thousandths *)
MathSin(a) ==
  LET d == a % 360
  IN IF d <= 90 THEN SinTable[d + 1]
     ELSE IF d <= 180 THEN SinTable[180 - d + 1]
     ELSE IF d <= 270 THEN -SinTable[d - 180 + 1]
     ELSE -SinTable[360 - d + 1]

MathCos(a) == MathSin(a + 90)

(* calculateSegmentDirection: the bearing the code computes (it feeds      *)
(* degrees to the trigonometric functions) for the end points of the       *)
(* segments used here                                                      *)
BearingTable ==
  { [start |-> <<38500000, -120200000>>, end |-> <<38500400, -120200200>>, bearing |-> 341],
    [start |-> <<38500000, -120200000>>, end |-> <<38500010, -120200000>>, bearing |-> 0],
    [start |-> <<38500000, -120200000>>, end |-> <<38512490, -120181700>>, bearing |-> 45],
    [start |-> <<38500000, -120200000>>, end |-> <<38499960, -120187350>>, bearing |-> 90],
    [start |-> <<38500000, -120200000>>, end |-> <<38487890, -120182920>>, bearing |-> 135],
    [start |-> <<38500000, -120200000>>, end |-> <<38480000, -120200000>>, bearing |-> 180],
    [start |-> <<38500000, -120200000>>, end |-> <<38487890, -120217080>>, bearing |-> 225],
    [start |-> <<38500000, -120200000>>, end |-> <<38499960, -120212650>>, bearing |-> 270],
    [start |-> <<38500000, -120200000>>, end |-> <<38512490, -120218300>>, bearing |-> 315] }

calculateSegmentDirection(segment) ==
  (CHOOSE r \in BearingTable :
     r.start = segment.start_latlng /\ r.end = segment.end_latlng).bearing

(* classifyWindCondition: the ladder, least severe first, and the speeds   *)
(* (tenths of m/s) at which the next bucket starts                         *)
WindLadder ==
  << "Calm", "Light Air", "Light Breeze", "Gentle Breeze", "Moderate Breeze",
     "Fresh Breeze", "Strong Breeze", "Near Gale", "Gale", "Strong Gale",
     "Storm", "Violent Storm", "Hurricane" >>

WindThresholds == << 5, 15, 33, 55, 79, 107, 138, 171, 207, 244, 284, 326 >>

(* variant: a speed equal to a threshold stays in the lower bucket *)
classifyWindCondition_Inclusive(windSpeed) ==
  IF windSpeed <= 5 THEN "Calm"
  ELSE IF windSpeed <= 15 THEN "Light Air"
  ELSE IF windSpeed <= 33 THEN "Light Breeze"
  ELSE IF windSpeed <= 55 THEN "Gentle Breeze"
  ELSE IF windSpeed <= 79 THEN "Moderate Breeze"
  ELSE IF windSpeed <= 107 THEN "Fresh Breeze"
  ELSE IF windSpeed <= 138 THEN "Strong Breeze"
  ELSE IF windSpeed <= 171 THEN "Near Gale"
  ELSE IF windSpeed <= 207 THEN "Gale"
  ELSE IF windSpeed <= 244 THEN "Strong Gale"
  ELSE IF windSpeed <= 284 THEN "Storm"
  ELSE IF windSpeed <= 326 THEN "Violent Storm"
  ELSE "Hurricane"
classifyWindCondition(windSpeed) ==
  IF windSpeed < 5 THEN "Calm"
  ELSE IF windSpeed < 15 THEN "Light Air"
  ELSE IF windSpeed < 33 THEN "Light Breeze"
  ELSE IF windSpeed < 55 THEN "Gentle Breeze"
  ELSE IF windSpeed < 79 THEN "Moderate Breeze"
  ELSE IF windSpeed < 107 THEN "Fresh Breeze"
  ELSE IF windSpeed < 138 THEN "Strong Breeze"
  ELSE IF windSpeed < 171 THEN "Near Gale"
  ELSE IF windSpeed < 207 THEN "Gale"
  ELSE IF windSpeed < 244 THEN "Strong Gale"
  ELSE IF windSpeed < 284 THEN "Storm"
  ELSE IF windSpeed < 326 THEN "Violent Storm"
  ELSE "Hurricane"

(* calculateWindImpact *)
(* variant: the relative angle is measured from the direction the wind     *)
(* blows to, so that wind from straight ahead counts as a tailwind         *)
relativeWindAngleOf_Downwind(windDegree, segmentDirection) ==
  Abs(JsRem(windDegree - segmentDirection, 360) - 180)
relativeWindAngleOf(windDegree, segmentDirection) ==
  Abs(JsRem(windDegree - segmentDirection + 180, 360) - 180)

calculateWindImpact(segment, weather) ==
  LET windSpeed == weather.wind_speed
      windDegree == weather.wind_deg
      (* hundredths of m/s *)
      windGust == IF Falsy(weather.wind_gust)
                    THEN windSpeed * 15 ELSE weather.wind_gust * 10
      segmentDirection == calculateSegmentDirection(segment)
      relativeWindAngle == relativeWindAngleOf(windDegree, segmentDirection)
      effectiveWindSpeed == windSpeed * MathCos(relativeWindAngle) * 100
      crosswindComponent == windSpeed * MathSin(relativeWindAngle) * 100
      flatWindImpactPercent == effectiveWindSpeed * 3
      gustImpact ==
        (windGust - windSpeed * 10) * Abs(MathSin(relativeWindAngle)) * 5
  IN [headwind |-> effectiveWindSpeed > 0,
      tailwind |-> effectiveWindSpeed < 0,
      crosswind |-> Abs(crosswindComponent) > 1000000,
      effectiveWindSpeed |-> effectiveWindSpeed,
      crosswindComponent |-> crosswindComponent,
      relativeWindAngle |-> relativeWindAngle,
      estimatedTimeImpact |-> flatWindImpactPercent,
      gustImpact |-> gustImpact,
      windCondition |-> classifyWindCondition(windSpeed)]

(* classifyTemperatureCondition (tenths of a degree) *)
classifyTemperatureCondition(temp) ==
  IF temp < 0 THEN "Freezing"
  ELSE IF temp < 50 THEN "Very Cold"
  ELSE IF temp < 100 THEN "Cold"
  ELSE IF temp < 150 THEN "Cool"
  ELSE IF temp < 250 THEN "Comfortable"
  ELSE IF temp < 300 THEN "Warm"
  ELSE IF temp < 350 THEN "Hot"
  ELSE "Very Hot"

(* calculateTemperatureImpact, lines 119-127 *)
(* variant: heat is weighted like cold, 0.5% per degree *)
tempImpactOf_HalfHeat(temp) ==
  IF temp < 150 THEN (150 - temp) * 50000
  ELSE IF temp > 250 THEN (temp - 250) * 50000
  ELSE 0
tempImpactOf(temp) ==
  IF temp < 150 THEN (150 - temp) * 50000
  ELSE IF temp > 250 THEN (temp - 250) * 100000
  ELSE 0

calculateTemperatureImpact(weather) ==
  LET temp == weather.temp
      feelsLike == weather.feels_like
  IN [temperature |-> temp,
      feelsLike |-> feelsLike,
      optimal |-> temp >= 150 /\ temp <= 250,
      estimatedTimeImpact |-> tempImpactOf(temp),
      perceptionImpact |-> Abs(feelsLike - temp) * 30000,
      condition |-> classifyTemperatureCondition(temp)]

(* Math.round(10000 * 6.1078 * Math.exp(17.27 * T / (T + 237.3))) for      *)
(* T = -30 .. 50 whole degrees: the saturation vapor pressure in 1e-4 hPa  *)
EsTable ==
  << 5017, 5517, 6060, 6652, 7294, 7992, 8749, 9570, 10459, 11421, 12462,
     13586, 14800, 16110, 17523, 19046, 20685, 22448, 24345, 26382, 28570,
     30918, 33436, 36134, 39023, 42116, 45425, 48961, 52739, 56773, 61078,
     65669, 70562, 75774, 81323, 87228, 93508, 100183, 107273, 114802,
     122792, 131267, 140252, 149772, 159855, 170529, 181823, 193767, 206392,
     219732, 233820, 248692, 264384, 280935, 298382, 316767, 336133, 356522,
     377981, 400555, 424293, 449245, 475462, 502998, 531909, 562250, 594080,
     627461, 662454, 699124, 737537, 777762, 819869, 863930, 910020, 958217,
     1008598, 1061246, 1116244, 1173678, 1233636 >>

(* es for a temperature in tenths of a degree within -30 .. 50 degrees,    *)
(* interpolated between whole degrees                                      *)
es(temp) ==
  LET q == temp \div 10
      r == temp % 10
      lo == EsTable[q + 31]
  IN IF r = 0 THEN lo ELSE lo + DivRound((EsTable[q + 32] - lo) * r, 10)

(* 10000 * num / den by long division in base 100, for 0 <= num and        *)
(* den < 2 * 10^7                                                          *)
Quotient4(num, den) ==
  LET q == num \div den
      r1 == (num % den) * 100
      r2 == (r1 % den) * 100
  IN q * 10000 + (r1 \div den) * 100 + r2 \div den

(* calculateAirDensity, line 78: temp + 273.15, in hundredths of a Kelvin   *)
(* variant: the offset is the 237.3 of the vapor pressure formula          *)
tempKOf_Tetens(temp) == temp * 10 + 23730
tempKOf(temp) == temp * 10 + 27315

(* calculateAirDensity (analysis.js and api.js hold the same function):    *)
(* the density in 1e-4 kg/m3                                               *)
calculateAirDensity(temp, humidity, pressure) ==
  LET tempK == tempKOf(temp)
      (* 1e-4 hPa *)
      e == DivRound(humidity * es(temp), 100)
      pd == pressure * 100 - e
      (* R * tempK and Rv * tempK with R = 287.05 and Rv = 461.495, in     *)
      (* hundredths                                                        *)
      RtempK == (28705 * tempK) \div 100
      RvtempK == (92299 * (tempK \div 5)) \div 40
  IN Quotient4(pd, RtempK) + Quotient4(e, RvtempK)

(* classifyAirDensityCondition *)
classifyAirDensityCondition(airDensity) ==
  IF airDensity < 11000 THEN "Very Low (High Altitude/Hot)"
  ELSE IF airDensity < 11750 THEN "Low"
  ELSE IF airDensity < 12250 THEN "Slightly Low"
  ELSE IF airDensity < 12750 THEN "Normal"
  ELSE IF airDensity < 13250 THEN "Slightly High"
  ELSE IF airDensity < 14000 THEN "High"
  ELSE "Very High (Cold/Dense)"

(* calculateAirDensityImpact, lines 165-169: a && b && c ? f : 1.225 after *)
(* air_density || ...; a missing field is undefined, and undefined and 0   *)
(* are both falsy.  A temperature below zero is truthy.                    *)
airDensityOf(weather) ==
  IF ~Falsy(weather.air_density) THEN weather.air_density
  ELSE IF ~Falsy(weather.temp) /\ ~Falsy(weather.humidity)
          /\ ~Falsy(weather.pressure)
    THEN calculateAirDensity(weather.temp, weather.humidity, weather.pressure)
    ELSE 12250

calculateAirDensityImpact(weather) ==
  LET airDensity == airDensityOf(weather)
      (* (airDensity - 1.225) / 1.225 * 100, in millionths of a percent *)
      diff == airDensity - 12250
      densityDifference ==
        IF diff >= 0 THEN DivRound(diff * 4000, 49) * 100
                     ELSE -DivRound((-diff) * 4000, 49) * 100
  IN [airDensity |-> airDensity,
      densityDifference |-> densityDifference,
      estimatedPowerImpact |-> DivRound(densityDifference * 3, 10),
      condition |-> classifyAirDensityCondition(airDensity)]

(* String.prototype.toLowerCase on the condition names *)
toLowerCase(s) ==
  CASE s = "Freezing" -> "freezing" [] s = "Very Cold" -> "very cold"
    [] s = "Cold" -> "cold" [] s = "Cool" -> "cool"
    [] s = "Comfortable" -> "comfortable" [] s = "Warm" -> "warm"
    [] s = "Hot" -> "hot" [] s = "Very Hot" -> "very hot"
    [] s = "Calm" -> "calm" [] s = "Light Air" -> "light air"
    [] s = "Light Breeze" -> "light breeze"
    [] s = "Gentle Breeze" -> "gentle breeze"
    [] s = "Moderate Breeze" -> "moderate breeze"
    [] s = "Fresh Breeze" -> "fresh breeze"
    [] s = "Strong Breeze" -> "strong breeze"
    [] s = "Near Gale" -> "near gale" [] s = "Gale" -> "gale"
    [] s = "Strong Gale" -> "strong gale" [] s = "Storm" -> "storm"
    [] s = "Violent Storm" -> "violent storm"
    [] s = "Hurricane" -> "hurricane"
    [] s = "Very Humid" -> "very humid" [] s = "Humid" -> "humid"
    [] s = "Dry" -> "dry"

(* Number.prototype.toFixed(1) of a non-negative value in millionths *)
toFixed1(x) ==
  LET n == DivRound(x, 100000)
  IN ToString(n \div 10) \o "." \o ToString(n % 10)

(* Array.prototype.join(", ") *)
RECURSIVE join(_)
join(parts) ==
  IF Len(parts) = 0 THEN ""
  ELSE IF Len(parts) = 1 THEN parts[1]
  ELSE parts[1] \o ", " \o join(Tail(parts))

(* generateWeatherSummary *)
generateWeatherSummary(conditions, timeImpact) ==
  LET conditionParts ==
        (IF conditions.temperature # "Comfortable"
           THEN <<toLowerCase(conditions.temperature) \o " temperature">>
           ELSE <<>>)
        \o (IF conditions.wind # "Calm" /\ conditions.wind # "Light Air"
              THEN <<toLowerCase(conditions.wind) \o " winds">> ELSE <<>>)
        \o (IF conditions.humidity = "Very Humid" \/ conditions.humidity = "Dry"
              THEN <<toLowerCase(conditions.humidity) \o " conditions">>
              ELSE <<>>)
      conditionsText ==
        IF Len(conditionParts) > 0 THEN join(conditionParts)
                                   ELSE "ideal conditions"
      impactText ==
        IF Abs(timeImpact) < 1000000 THEN "minimal impact on performance"
        ELSE IF timeImpact > 0
          THEN "approximately " \o toFixed1(timeImpact)
                 \o "% slower than ideal conditions"
          ELSE "approximately " \o toFixed1(Abs(timeImpact))
                 \o "% faster than ideal conditions"
  IN "Effort was made in " \o conditionsText \o " with " \o impactText \o "."

(* calculateWeatherRating, lines 370-386: twice the score, in millionths   *)
(* (the doubling keeps the halves of the 1.5 and 0.5 weights exact)        *)
Score2(windImpact, temperatureImpact, airDensityImpact, humidity) ==
  200000000
    - Abs(windImpact.effectiveWindSpeed) * 4
    - Abs(windImpact.crosswindComponent) * 3
    - Abs(windImpact.gustImpact) * 6
    - Abs(temperatureImpact.estimatedTimeImpact) * 3
    - Abs(airDensityImpact.densityDifference)
    - (IF temperatureImpact.temperature > 250 /\ humidity > 70
         THEN (humidity - 70) * 400000 ELSE 0)

Max(a, b) == IF a >= b THEN a ELSE b
Min(a, b) == IF a <= b THEN a ELSE b

(* Math.round of half of s2 millionths: floor(score + 0.5) *)
MathRoundHalf(s2) == (s2 + 1000000) \div 2000000

(* calculateWeatherRating, line 389 *)
(* variant: the rounded score is capped at 100 but not raised to 0 *)
ClampRating_NoFloor(rounded) == Min(100, rounded)
ClampRating(rounded) == Max(0, Min(100, rounded))

calculateWeatherRating(windImpact, temperatureImpact, airDensityImpact, humidity) ==
  ClampRating(MathRoundHalf(
    Score2(windImpact, temperatureImpact, airDensityImpact, humidity)))

(* analyzeWeatherImpact, lines 275-276 *)
(* variant: the air-density power impact is added to the time impact *)
totalTimeImpactOf_WithDensity(windImpact, temperatureImpact, airDensityImpact) ==
  windImpact.estimatedTimeImpact + temperatureImpact.estimatedTimeImpact
    + airDensityImpact.estimatedPowerImpact
totalTimeImpactOf(windImpact, temperatureImpact, airDensityImpact) ==
  windImpact.estimatedTimeImpact + temperatureImpact.estimatedTimeImpact

(* analyzeWeatherImpact: the analysis of a reading for a segment (uvi and  *)
(* dew_point, which are copied through, are left out)                      *)
analyzeWeatherImpact(segment, weather) ==
  LET windImpact == calculateWindImpact(segment, weather)
      temperatureImpact == calculateTemperatureImpact(weather)
      airDensityImpact == calculateAirDensityImpact(weather)
      humidityImpact ==
        [humidity |-> weather.humidity,
         impact |-> IF weather.humidity > 80 THEN "High"
                    ELSE IF weather.humidity > 60 THEN "Moderate" ELSE "Low",
         condition |-> IF weather.humidity > 80 THEN "Very Humid"
                       ELSE IF weather.humidity > 60 THEN "Humid"
                       ELSE IF weather.humidity > 40 THEN "Comfortable"
                       ELSE "Dry"]
      conditions ==
        [wind |-> windImpact.windCondition,
         temperature |-> temperatureImpact.condition,
         humidity |-> humidityImpact.condition,
         airDensity |-> airDensityImpact.condition]
      totalTimeImpact ==
        totalTimeImpactOf(windImpact, temperatureImpact, airDensityImpact)
  IN [timestamp |-> weather.timestamp,
      summary |-> generateWeatherSummary(conditions, totalTimeImpact),
      rating |-> calculateWeatherRating(windImpact, temperatureImpact,
                                        airDensityImpact, weather.humidity),
      conditions |-> conditions,
      estimatedTimeImpact |-> totalTimeImpact,
      components |-> [wind |-> windImpact, temperature |-> temperatureImpact,
                      airDensity |-> airDensityImpact,
                      humidity |-> humidityImpact],
      weather |-> [temp |-> weather.temp, humidity |-> weather.humidity,
                   pressure |-> weather.pressure,
                   wind_speed |-> weather.wind_speed,
                   wind_deg |-> weather.wind_deg,
                   wind_gust |-> weather.wind_gust,
                   air_density |-> airDensityImpact.airDensity]]

(* getEnhancedWeatherData: the unwrapped reading with the derived fields *)
Enhance(data, timestamp, t) ==
  [temp |-> data.temp, feels_like |-> data.feels_like,
   humidity |-> data.humidity, pressure |-> data.pressure,
   wind_speed |-> data.wind_speed, wind_deg |-> data.wind_deg,
   wind_gust |-> data.wind_gust,
   air_density |-> calculateAirDensity(data.temp, data.humidity, data.pressure),
   timestamp |-> IF Falsy(timestamp) THEN t \div 1000 ELSE timestamp,
   source |-> SOURCE_TAG]

SegmentOf(id) == CHOOSE s \in Segments : s.id = id

----------------------------------------------------------------------------
(* decodePolyline (src/api.js).  A string is the sequence of its character *)
(* codes; the coordinates are kept as the integers lat and lng, before the *)
(* multiplication by 1e-5.  Strings are short enough for every shifted     *)
(* chunk to stay below 2^31.                                               *)

(* the encoded path of the test segment: "_p~iF~ps|U_ulLnnqC_mqNvxq`@" *)
ReferencePolyline ==
  << 95, 112, 126, 105, 70, 126, 112, 115, 124, 85, 95, 117, 108, 76, 110,
     110, 113, 67, 95, 109, 113, 78, 118, 120, 113, 96, 64 >>

(* String.prototype.charCodeAt: NaN past the end of the string *)
NaN == -1000
charCodeAt(str, index) == IF index < Len(str) THEN str[index + 1] ELSE NaN

(* b = charCodeAt(index) - 63, and the two uses of b in the inner loop:    *)
(* NaN & 0x1f is 0 and NaN >= 0x20 is false                                *)
Minus63(code) == IF code = NaN THEN NaN ELSE code - 63
And0x1f(b) == IF b = NaN THEN 0 ELSE b % 32
AtLeast0x20(b) == b # NaN /\ b >= 32

(* the do-while loop: the chunks of one value, from index on *)
RECURSIVE ReadChunks(_, _, _, _)
ReadChunks(encodedPolyline, index, shift, result) ==
  LET b == Minus63(charCodeAt(encodedPolyline, index))
      next == result + And0x1f(b) * 2^shift
  IN IF AtLeast0x20(b)
       THEN ReadChunks(encodedPolyline, index + 1, shift + 5, next)
       ELSE [result |-> next, index |-> index + 1]

(* result & 1 ? ~(result >> 1) : result >> 1 *)
(* variant: the sign bit is dropped and never applied *)
deltaOf_Unsigned(result) == result \div 2
deltaOf(result) ==
  IF result % 2 = 1 THEN -(result \div 2) - 1 ELSE result \div 2

(* the while loop, from index on *)
RECURSIVE DecodeFrom(_, _, _, _, _)
DecodeFrom(encodedPolyline, index, lat, lng, coordinates) ==
  IF index < Len(encodedPolyline)
    THEN LET first == ReadChunks(encodedPolyline, index, 0, 0)
             lat2 == lat + deltaOf(first.result)
             second == ReadChunks(encodedPolyline, first.index, 0, 0)
             lng2 == lng + deltaOf(second.result)
         IN DecodeFrom(encodedPolyline, second.index, lat2, lng2,
                       Append(coordinates, <<lat2, lng2>>))
    ELSE coordinates

(* decodePolyline: it has no throw statement and always returns *)
decodePolyline(encodedPolyline) ==
  [thrown |-> "none",
   coordinates |-> DecodeFrom(encodedPolyline, 0, 0, 0, <<>>)]

----------------------------------------------------------------------------
(* getCachedWeatherData: the expiry test on a stored entry *)
(* variant: an entry aged exactly 48 hours already counts as expired *)
IsExpired_AtTTL(t, cachedAt) == t - cachedAt >= CACHE_EXPIRATION
IsExpired(t, cachedAt) == t - cachedAt > CACHE_EXPIRATION

(* getCachedWeatherData, lines 51-55: the storage requests issued for an   *)
(* expired entry                                                          *)
(* variant: the expired entry is reported absent but never removed *)
ExpiredOps_None(c, cacheKey) == <<>>
ExpiredOps(c, cacheKey) == <<StorageOp("remove", c, {cacheKey}, NoObj)>>

(* cacheWeatherData: the object handed to chrome.storage.local.set *)
CacheObject(data, t) == [data |-> data, cachedAt |-> t]

(* chrome.storage.local.set of one key / remove of a list of keys *)
(* variant: an existing entry is updated in place and keeps its cachedAt *)
ApplySet_Merge(s, op) ==
  LET k == CHOOSE x \in op.keys : TRUE
  IN StoreSet(s, k, IF k \in DOMAIN s
                      THEN [data |-> op.obj.data, cachedAt |-> s[k].cachedAt]
                      ELSE op.obj)
ApplySet(s, op) == StoreSet(s, CHOOSE k \in op.keys : TRUE, op.obj)
ApplyRemove(s, op) == StoreRemove(s, op.keys)

(* getWeatherData / getWeatherImpact return paths *)
Resolve(cl, data) ==
  [cl EXCEPT !.pc = "resolved", !.weatherData = data,
             !.result = IF cl.entry = "getWeatherImpact"
                          THEN analyzeWeatherImpact(SegmentOf(cl.segment), data)
                          ELSE data]

Reject(cl, err) == [cl EXCEPT !.pc = "rejected", !.error = err]

(* getWeatherData, lines 111-118: the upstream fetch is issued *)
IssueFetch(cl) ==
  [cl EXCEPT !.pc = "awaitFetch",
             !.request = RequestFor(cl.lat, cl.lng, cl.timestamp),
             !.fetches = @ + 1]

(* getWeatherData, lines 105-108: a cached reading is returned as is *)
(* variant: a hit still goes upstream before returning *)
OnCacheHit_Refetch(cl, data) ==
  Resolve([cl EXCEPT !.cached = TRUE, !.fetches = @ + 1], data)
OnCacheHit(cl, data) == Resolve([cl EXCEPT !.cached = TRUE], data)

(* getWeatherData, catch block: a failed cache read *)
OnCacheReadError(cl) == Reject(cl, "storage")

(* getWeatherData, catch block: a failed cache write *)
OnCacheWriteError(cl) == Reject(cl, "storage")

(* getWeatherData, catch block: a failed upstream request *)
(* variant: a failed request is sent again *)
OnFetchError_Retry(cl, err) == IssueFetch(cl)
OnFetchError(cl, err) == Reject(cl, err)

(* the timestamp getWeatherData works with *)
EffectiveTimestamp(timestamp, t) ==
  IF Falsy(timestamp) THEN t \div 1000 ELSE timestamp

----------------------------------------------------------------------------
(* The starred-segments page (src/contentScripts/starredSegmentsWeather.js *)
(* and src/contentScripts/starredSegments.js): one table row per segment,  *)
(* row r showing segment r.  A fire-and-forget storage request is applied  *)
(* in the step that issues it.                                             *)

MaxRows == 2
Rows == 1..MaxRows

SEGMENT_WEATHER_PREFIX == "segment_weather_"
RowKey(segmentId) == SEGMENT_WEATHER_PREFIX \o ToString(segmentId)

null == [none |-> TRUE]

(* an analysis as the service worker returns it for GET_WEATHER_IMPACT *)
SomeAnalysis ==
  analyzeWeatherImpact(SegmentOf(1),
                       Enhance(CHOOSE r \in Readings : r.temp = 200, 3700, Now0))

(* what the storage holds besides weather_data_ entries: the token record  *)
(* and the analysis stored for segment 1 by an earlier visit of the page   *)
OtherEntries ==
  [k \in {"strava_auth_data", RowKey(1)} |->
     IF k = "strava_auth_data" THEN [access_token |-> "tok"]
     ELSE [weather |-> SomeAnalysis, timestamp |-> Now0]]

Cell(class, text) == [class |-> class, text |-> text]

IdleRow ==
  [pc |-> "idle", cell |-> Cell("", ""), outcome |-> "none",
   weatherImpact |-> null]

IdleBatch ==
  [pc |-> "idle", all |-> "none", memo |-> <<>>, rows |-> [r \in Rows |-> IdleRow]]

(* Map.prototype.set *)
MapSet(m, k, v) == [x \in DOMAIN m \cup {k} |-> IF x = k THEN v ELSE m[x]]

(* updateWeatherCell of starredSegmentsWeather.js *)
updateWeatherCell(weatherImpact) ==
  IF weatherImpact = null
    THEN Cell("weather-error", "No weather data")
    ELSE Cell("weather-container", ToString(weatherImpact.rating))

(* processSegmentRow, catch block: a rejected request *)
(* variant: the rejection is not caught and leaves processSegmentRow *)
OnRowReject_Escapes(row, outcome) ==
  [row EXCEPT !.pc = "rejected", !.outcome = outcome]
OnRowReject(row, outcome) ==
  [row EXCEPT !.pc = "done", !.outcome = outcome,
              !.cell = Cell("weather-error", "Error retrieving weather data")]

(* processSegmentRow returns after writing a cell *)
RowDone(row, outcome, cell) ==
  [row EXCEPT !.pc = "done", !.outcome = outcome, !.cell = cell]

(* updateWeatherCell of starredSegments.js *)
updateAssistCell(analysis) ==
  IF analysis = null THEN Cell("gray", "No data")
  ELSE Cell(IF analysis.level = "Favorable" THEN "green"
            ELSE IF analysis.level = "Unfavorable" THEN "red" ELSE "orange",
            analysis.level)

----------------------------------------------------------------------------
Init ==
  /\ now = Now0
  /\ store = OtherEntries
  /\ queue = <<>>
  /\ call = [c \in Callers |-> IdleCall]
  /\ callsMade = 0
  /\ clear = [pc |-> "idle", made |-> 0]
  /\ probe = NoProbe
  /\ batch = IdleBatch

(* Date.now() advances *)
Tick ==
  /\ \E t \in ClockValues :
       /\ t > now
       /\ now' = t
  /\ UNCHANGED <<store, queue, call, callsMade, clear, probe, batch>>

(* The synchronous part of getWeatherData up to its first await *)
Begin(c, entry, seg, tsArg, useCache) ==
  LET lat == (seg.start_latlng[1] + seg.end_latlng[1]) \div 2
      lng == (seg.start_latlng[2] + seg.end_latlng[2]) \div 2
      timestamp == EffectiveTimestamp(tsArg, now)
      cl == [IdleCall EXCEPT !.entry = entry, !.segment = seg.id,
                             !.timestampArg = tsArg, !.useCache = useCache,
                             !.lat = lat, !.lng = lng, !.timestamp = timestamp]
  IN /\ call[c].pc = "idle"
     /\ \A b \in Callers : b < c => call[b].pc # "idle"
     /\ callsMade < MaxCalls
     /\ callsMade' = callsMade + 1
     /\ IF useCache
          THEN LET cacheKey == generateCacheKey(lat, lng, timestamp)
               IN /\ call' = [call EXCEPT ![c] =
                                [cl EXCEPT !.pc = "awaitGet", !.cacheKey = cacheKey]]
                  /\ queue' = Append(queue, StorageOp("get", c, {cacheKey}, NoObj))
          ELSE /\ call' = [call EXCEPT ![c] = IssueFetch(cl)]
               /\ queue' = queue
     /\ UNCHANGED <<now, store, clear, probe, batch>>

(* getWeatherImpact(segment, timestamp) is called *)
GetWeatherImpact(c) ==
  \E seg \in Segments, tsArg \in TimestampArgs :
     Begin(c, "getWeatherImpact", seg, tsArg, TRUE)

(* segments as the Strava API can return them, without start_latlng and   *)
(* end_latlng: one with an encoded path, one without                      *)
BareSegments ==
  { [id |-> 2, map |-> [polyline |-> ReferencePolyline]],
    [id |-> 3] }

HasCoordinates(segment) ==
  "start_latlng" \in DOMAIN segment /\ "end_latlng" \in DOMAIN segment

(* getWeatherImpact(segment, timestamp) is called with a segment that has *)
(* no coordinates: reading segment.start_latlng[0] throws a TypeError     *)
(* inside the try block, and the catch block logs and rethrows it         *)
GetWeatherImpactBare(c) ==
  \E seg \in BareSegments, tsArg \in TimestampArgs :
     /\ ~HasCoordinates(seg)
     /\ call[c].pc = "idle"
     /\ \A b \in Callers : b < c => call[b].pc # "idle"
     /\ callsMade < MaxCalls
     /\ callsMade' = callsMade + 1
     /\ call' = [call EXCEPT ![c] =
                   Reject([IdleCall EXCEPT !.entry = "getWeatherImpact",
                                           !.segment = seg.id,
                                           !.timestampArg = tsArg],
                          "TypeError")]
     /\ UNCHANGED <<now, store, queue, clear, probe, batch>>

(* The callback of chrome.storage.local.get in getCachedWeatherData, and  *)
(* the continuation of getWeatherData after the await                     *)
StorageGetCallback(c) ==
  /\ queue # <<>>
  /\ Head(queue).op = "get"
  /\ Head(queue).caller = c
  /\ call[c].pc = "awaitGet"
  /\ LET cacheKey == call[c].cacheKey
     IN \E lastError \in BOOLEAN :
          IF lastError
            THEN /\ call' = [call EXCEPT ![c] = OnCacheReadError(call[c])]
                 /\ queue' = Tail(queue)
            ELSE IF cacheKey \notin DOMAIN store
            THEN /\ call' = [call EXCEPT ![c] = IssueFetch(call[c])]
                 /\ queue' = Tail(queue)
            ELSE IF IsExpired(now, store[cacheKey].cachedAt)
            THEN /\ call' = [call EXCEPT ![c] =
                               IssueFetch([call[c] EXCEPT !.evicted = TRUE])]
                 /\ queue' = Tail(queue) \o ExpiredOps(c, cacheKey)
            ELSE /\ call' = [call EXCEPT ![c] =
                               OnCacheHit(call[c], store[cacheKey].data)]
                 /\ queue' = Tail(queue)
  /\ UNCHANGED <<now, store, callsMade, clear, probe, batch>>

(* chrome.storage.local.remove issued by an expired lookup is served; it  *)
(* has no callback                                                        *)
StorageRemove ==
  /\ queue # <<>>
  /\ Head(queue).op = "remove"
  /\ queue' = Tail(queue)
  /\ \E lastError \in BOOLEAN :
       store' = IF lastError THEN store ELSE ApplyRemove(store, Head(queue))
  /\ UNCHANGED <<now, call, callsMade, clear, probe, batch>>

(* The proxy answers the request of getEnhancedWeatherData *)
FetchResponse(c) ==
  /\ call[c].pc = "awaitFetch"
  /\ \E outcome \in {"ok", "httpError", "networkError"} :
       IF outcome = "ok"
         THEN \E r \in Readings :
                LET weatherData == Enhance(r, call[c].timestamp, now)
                IN IF call[c].useCache
                     THEN /\ call' = [call EXCEPT ![c] =
                                [@ EXCEPT !.pc = "awaitSet",
                                          !.weatherData = weatherData,
                                          !.cachedAt = now,
                                          !.sets = @ + 1]]
                          /\ queue' = Append(queue,
                                StorageOp("set", c, {call[c].cacheKey},
                                          CacheObject(weatherData, now)))
                     ELSE /\ call' = [call EXCEPT ![c] = Resolve(@, weatherData)]
                          /\ queue' = queue
         ELSE /\ call' = [call EXCEPT ![c] = OnFetchError(@, outcome)]
              /\ queue' = queue
  /\ UNCHANGED <<now, store, callsMade, clear, probe, batch>>

(* The callback of chrome.storage.local.set in cacheWeatherData *)
StorageSetCallback(c) ==
  /\ queue # <<>>
  /\ Head(queue).op = "set"
  /\ Head(queue).caller = c
  /\ call[c].pc = "awaitSet"
  /\ queue' = Tail(queue)
  /\ \E lastError \in BOOLEAN :
       IF lastError
         THEN /\ call' = [call EXCEPT ![c] = OnCacheWriteError(@)]
              /\ store' = store
         ELSE /\ call' = [call EXCEPT ![c] = Resolve(@, call[c].weatherData)]
              /\ store' = ApplySet(store, Head(queue))
  /\ UNCHANGED <<now, callsMade, clear, probe, batch>>

(* The caller consumes the settled promise (handleGetWeatherImpact) *)
Return(c) ==
  /\ call[c].pc \in {"resolved", "rejected"}
  /\ call' = [call EXCEPT ![c] = IdleCall]
  /\ UNCHANGED <<now, store, queue, callsMade, clear, probe, batch>>

(* clearWeatherCache is called *)
ClearWeatherCache ==
  /\ clear.pc = "idle"
  /\ clear.made < MaxClears
  /\ clear' = [pc |-> "awaitGetAll", made |-> clear.made + 1]
  /\ queue' = Append(queue, StorageOp("getAll", 0, {}, NoObj))
  /\ UNCHANGED <<now, store, call, callsMade, probe, batch>>

(* The callback of chrome.storage.local.get(null) in clearWeatherCache *)
ClearGetAllCallback ==
  /\ queue # <<>>
  /\ Head(queue).op = "getAll"
  /\ clear.pc = "awaitGetAll"
  /\ \E lastError \in BOOLEAN :
       LET weatherKeys == {k \in DOMAIN store : StartsWith(k, WEATHER_CACHE_PREFIX)}
       IN IF lastError
            THEN /\ clear' = [clear EXCEPT !.pc = "rejected"]
                 /\ queue' = Tail(queue)
            ELSE IF weatherKeys = {}
            THEN /\ clear' = [clear EXCEPT !.pc = "resolved"]
                 /\ queue' = Tail(queue)
            ELSE /\ clear' = [clear EXCEPT !.pc = "awaitRemove"]
                 /\ queue' = Append(Tail(queue),
                                    StorageOp("removeKeys", 0, weatherKeys, NoObj))
  /\ UNCHANGED <<now, store, call, callsMade, probe, batch>>

(* The callback of chrome.storage.local.remove(weatherKeys) *)
ClearRemoveCallback ==
  /\ queue # <<>>
  /\ Head(queue).op = "removeKeys"
  /\ clear.pc = "awaitRemove"
  /\ queue' = Tail(queue)
  /\ \E lastError \in BOOLEAN :
       IF lastError
         THEN /\ clear' = [clear EXCEPT !.pc = "rejected"]
              /\ store' = store
         ELSE /\ clear' = [clear EXCEPT !.pc = "resolved"]
              /\ store' = ApplyRemove(store, Head(queue))
  /\ UNCHANGED <<now, call, callsMade, probe, batch>>

(* The caller consumes the promise of clearWeatherCache *)
ClearReturn ==
  /\ clear.pc \in {"resolved", "rejected"}
  /\ clear' = [clear EXCEPT !.pc = "idle"]
  /\ UNCHANGED <<now, store, queue, call, callsMade, probe, batch>>

Next ==
  \/ Tick
  \/ \E c \in Callers : GetWeatherImpact(c)
  \/ \E c \in Callers : StorageGetCallback(c)
  \/ StorageRemove
  \/ \E c \in Callers : FetchResponse(c)
  \/ \E c \in Callers : StorageSetCallback(c)
  \/ \E c \in Callers : Return(c)
  \/ ClearWeatherCache
  \/ ClearGetAllCallback
  \/ ClearRemoveCallback
  \/ ClearReturn

Spec == Init /\ [][Next]_vars

(* the same program, called with segments of either kind *)
ImpactNext ==
  \/ Next
  \/ \E c \in Callers : GetWeatherImpactBare(c)

ImpactSpec == Init /\ [][ImpactNext]_vars

(* the same program, started with the storage an earlier call has left: the *)
(* reading for segment 1 at timestamp 3700, cached at Now0                   *)
EarlierKey ==
  LET seg == SegmentOf(1)
  IN generateCacheKey((seg.start_latlng[1] + seg.end_latlng[1]) \div 2,
                      (seg.start_latlng[2] + seg.end_latlng[2]) \div 2, 3700)

EarlierEntry ==
  CacheObject(Enhance(CHOOSE r \in Readings : r.temp = 200, 3700, Now0), Now0)

WarmInit ==
  /\ now = Now0
  /\ store = StoreSet(OtherEntries, EarlierKey, EarlierEntry)
  /\ queue = <<>>
  /\ call = [c \in Callers |-> IdleCall]
  /\ callsMade = 0
  /\ clear = [pc |-> "idle", made |-> 0]
  /\ probe = NoProbe
  /\ batch = IdleBatch

WarmSpec == WarmInit /\ [][Next]_vars

----------------------------------------------------------------------------
(* starredSegmentsWeather.js: processExistingSegments calls                *)
(* processSegmentRow(row) for every row without awaiting it; each call     *)
(* runs up to its first await                                              *)
ProcessExistingSegments ==
  /\ batch.pc = "idle"
  /\ batch' =
       [batch EXCEPT
          !.pc = "rows",
          !.rows = [r \in Rows |->
                      IF r \in DOMAIN batch.memo
                        THEN RowDone(IdleRow, "memo",
                                     updateWeatherCell(batch.memo[r]))
                        ELSE [IdleRow EXCEPT
                                !.pc = "awaitCache",
                                !.cell = Cell("weather-loading", "Loading...")]]]
  /\ UNCHANGED <<now, store, queue, call, callsMade, clear, probe>>

(* the callback of chrome.storage.local.get in retrieveWeatherFromCache,   *)
(* and processSegmentRow up to its next await                              *)
RowCacheCallback(r) ==
  LET row == batch.rows[r]
      key == RowKey(r)
      miss == [row EXCEPT !.pc = "awaitDetails"]
  IN /\ batch.pc = "rows"
     /\ row.pc = "awaitCache"
     /\ \E lastError \in BOOLEAN :
          IF lastError \/ key \notin DOMAIN store
            THEN /\ batch' = [batch EXCEPT !.rows[r] = miss]
                 /\ store' = store
            ELSE IF now - store[key].timestamp > CACHE_EXPIRATION
            THEN /\ batch' = [batch EXCEPT !.rows[r] = miss]
                 /\ \E removeError \in BOOLEAN :
                      store' = IF removeError THEN store
                               ELSE StoreRemove(store, {key})
            ELSE LET cachedWeather == store[key].weather
                 IN /\ batch' =
                         [batch EXCEPT
                            !.memo = MapSet(@, r, cachedWeather),
                            !.rows[r] =
                               RowDone([row EXCEPT !.weatherImpact = cachedWeather],
                                       "cached",
                                       updateWeatherCell(cachedWeather))]
                    /\ store' = store
     /\ UNCHANGED <<now, queue, call, callsMade, clear, probe>>

(* the response to GET_SEGMENT_DETAILS reaches fetchSegmentDetails *)
RowDetailsResponse(r) ==
  LET row == batch.rows[r]
  IN /\ batch.pc = "rows"
     /\ row.pc = "awaitDetails"
     /\ \E outcome \in {"lastError", "error", "noData", "data"} :
          batch' =
            [batch EXCEPT !.rows[r] =
               IF outcome \in {"lastError", "error"}
                 THEN OnRowReject(row, "details:" \o outcome)
               ELSE IF outcome = "noData"
                 THEN RowDone(row, "details:noData",
                              Cell("weather-error", "Error retrieving segment data"))
               ELSE [row EXCEPT !.pc = "awaitEffort"]]
     /\ UNCHANGED <<now, store, queue, call, callsMade, clear, probe>>

(* the response to GET_SEGMENT_EFFORTS reaches fetchLatestEffort *)
RowEffortResponse(r) ==
  LET row == batch.rows[r]
  IN /\ batch.pc = "rows"
     /\ row.pc = "awaitEffort"
     /\ \E outcome \in {"lastError", "error", "noData", "data"} :
          batch' =
            [batch EXCEPT !.rows[r] =
               IF outcome \in {"lastError", "error"}
                 THEN OnRowReject(row, "effort:" \o outcome)
               ELSE IF outcome = "noData"
                 THEN RowDone(row, "effort:noData",
                              Cell("weather-info", "No efforts found"))
               ELSE [row EXCEPT !.pc = "awaitWeather"]]
     /\ UNCHANGED <<now, store, queue, call, callsMade, clear, probe>>

(* the response to GET_WEATHER_IMPACT (sent by handleGetWeatherImpact)     *)
(* reaches fetchWeatherForSegment, and processSegmentRow runs to its end   *)
RowWeatherResponse(r) ==
  LET row == batch.rows[r]
  IN /\ batch.pc = "rows"
     /\ row.pc = "awaitWeather"
     /\ \E outcome \in {"lastError", "error", "noData", "data"} :
          IF outcome \in {"lastError", "error"}
            THEN /\ batch' = [batch EXCEPT !.rows[r] =
                                OnRowReject(row, "weather:" \o outcome)]
                 /\ store' = store
            ELSE LET weatherImpact == IF outcome = "data" THEN SomeAnalysis
                                                          ELSE null
                 IN /\ batch' =
                         [batch EXCEPT
                            !.memo = MapSet(@, r, weatherImpact),
                            !.rows[r] =
                               RowDone([row EXCEPT !.weatherImpact = weatherImpact],
                                       "weather:" \o outcome,
                                       updateWeatherCell(weatherImpact))]
                    /\ \E setError \in BOOLEAN :
                         store' = IF setError THEN store
                                  ELSE StoreSet(store, RowKey(r),
                                                [weather |-> weatherImpact,
                                                 timestamp |-> now])
     /\ UNCHANGED <<now, queue, call, callsMade, clear, probe>>

(* starredSegments.js: addWeatherAssistColumn adds a cell to every row and *)
(* starts processSegmentWeather for it, then awaits Promise.all            *)
AddWeatherAssistColumn ==
  /\ batch.pc = "idle"
  /\ batch' =
       [batch EXCEPT
          !.pc = "column",
          !.all = "awaiting",
          !.rows = [r \in Rows |->
                      [IdleRow EXCEPT !.pc = "awaitSegment",
                                      !.cell = Cell("gray", "Loading...")]]]
  /\ UNCHANGED <<now, store, queue, call, callsMade, clear, probe>>

(* getSegmentWithCache settles in processSegmentWeather; a failure is      *)
(* caught there and null returned, which the then-handler writes           *)
ColumnSegmentResponse(r) ==
  LET row == batch.rows[r]
  IN /\ batch.pc = "column"
     /\ row.pc = "awaitSegment"
     /\ \E outcome \in {"rejected", "noLocation", "located"} :
          batch' =
            [batch EXCEPT !.rows[r] =
               IF outcome = "located"
                 THEN [row EXCEPT !.pc = "awaitCurrent"]
                 ELSE RowDone(row, "segment:" \o outcome, updateAssistCell(null))]
     /\ UNCHANGED <<now, store, queue, call, callsMade, clear, probe>>

(* getCurrentWeather settles in processSegmentWeather *)
ColumnWeatherResponse(r) ==
  LET row == batch.rows[r]
  IN /\ batch.pc = "column"
     /\ row.pc = "awaitCurrent"
     /\ \E outcome \in {"rejected", "Favorable", "Neutral", "Unfavorable"} :
          batch' =
            IF outcome = "rejected"
              THEN [batch EXCEPT !.rows[r] =
                      RowDone(row, "current:rejected", updateAssistCell(null))]
              ELSE LET analysis == [level |-> outcome]
                   IN [batch EXCEPT
                         !.memo = MapSet(@, r, analysis),
                         !.rows[r] =
                            RowDone([row EXCEPT !.weatherImpact = analysis],
                                    "current:data", updateAssistCell(analysis))]
     /\ UNCHANGED <<now, store, queue, call, callsMade, clear, probe>>

(* Promise.all(segmentPromises) settles in addWeatherAssistColumn: every  *)
(* promise of the list ends in a catch handler, so it is fulfilled when   *)
(* the last row is                                                        *)
PromiseAllSettles ==
  /\ batch.pc = "column"
  /\ batch.all = "awaiting"
  /\ \A r \in Rows : batch.rows[r].pc = "done"
  /\ batch' = [batch EXCEPT !.all = "complete"]
  /\ UNCHANGED <<now, store, queue, call, callsMade, clear, probe>>

BatchNext ==
  \/ Tick
  \/ ProcessExistingSegments
  \/ \E r \in Rows : RowCacheCallback(r)
  \/ \E r \in Rows : RowDetailsResponse(r)
  \/ \E r \in Rows : RowEffortResponse(r)
  \/ \E r \in Rows : RowWeatherResponse(r)
  \/ AddWeatherAssistColumn
  \/ \E r \in Rows : ColumnSegmentResponse(r)
  \/ \E r \in Rows : ColumnWeatherResponse(r)
  \/ PromiseAllSettles

BatchSpec == Init /\ [][BatchNext]_vars

----------------------------------------------------------------------------
(* generateCacheKey on its own: two argument triples are quantized, and   *)
(* the first one is quantized again from its rounded values               *)

Latitudes == {38499400, 38499500, 38500200, 38500499, 38500500, -500, -501}
Longitudes == {-120200500, -120200501, -120200100, 400}
Timestamps == {3599, 3600, 3700, 5500, 7199, 7200}

Quantize ==
  /\ probe = NoProbe
  /\ \E lat1 \in Latitudes, lng1 \in Longitudes, ts1 \in Timestamps,
        lat2 \in Latitudes, lng2 \in Longitudes, ts2 \in Timestamps :
       probe' = [a |-> <<lat1, lng1, ts1>>, b |-> <<lat2, lng2, ts2>>,
                 keyA |-> generateCacheKey(lat1, lng1, ts1),
                 keyB |-> generateCacheKey(lat2, lng2, ts2),
                 again |-> generateCacheKey(roundedLatOf(lat1) * 1000,
                                            roundedLngOf(lng1) * 1000,
                                            roundedTimestampOf(ts1))]
  /\ UNCHANGED <<now, store, queue, call, callsMade, clear, batch>>

KeyNext == Quantize

KeySpec == Init /\ [][KeyNext]_vars

----------------------------------------------------------------------------
(* The analysis functions on their own: each is applied once to arguments  *)
(* drawn from the sets below, and the arguments and the value returned are *)
(* kept in probe                                                           *)

ProbeIs(kind) == "kind" \in DOMAIN probe /\ probe.kind = kind

(* one segment per entry of BearingTable *)
WindSegments ==
  { [id |-> 10 + r.bearing, start_latlng |-> r.start, end_latlng |-> r.end] :
      r \in BearingTable }

(* tenths of a degree Celsius *)
Temperatures ==
  {-300, -100, -5, 0, 50, 100, 145, 149, 150, 151, 200, 249, 250, 251, 255,
   300, 350, 450, 500}

(* tenths of m/s: every threshold of the ladder, the tenth below it, no    *)
(* wind and a storm                                                        *)
WindSpeeds ==
  {0, 600} \cup {WindThresholds[i] : i \in 1..Len(WindThresholds)}
           \cup {WindThresholds[i] - 1 : i \in 1..Len(WindThresholds)}

WindDegrees == {0, 45, 90, 135, 161, 180, 225, 270, 315, 341, 360}

ProbeTemperature ==
  /\ probe = NoProbe
  /\ \E temp \in Temperatures, d \in {-30, 0, 20} :
       LET weather == [temp |-> temp, feels_like |-> temp + d]
       IN probe' = [kind |-> "temperature", weather |-> weather,
                    out |-> calculateTemperatureImpact(weather)]
  /\ UNCHANGED <<now, store, queue, call, callsMade, clear, batch>>

ProbeWindClass ==
  /\ probe = NoProbe
  /\ \E s1 \in WindSpeeds, s2 \in WindSpeeds,
        windGust \in {undefined, 400}, windDegree \in {0, 180} :
       probe' = [kind |-> "windClass", s1 |-> s1, s2 |-> s2,
                 bucket1 |-> classifyWindCondition(s1),
                 bucket2 |-> classifyWindCondition(s2),
                 viaImpact |->
                   calculateWindImpact(
                     CHOOSE seg \in WindSegments : seg.id = 100,
                     [wind_speed |-> s1, wind_deg |-> windDegree,
                      wind_gust |-> windGust]).windCondition]
  /\ UNCHANGED <<now, store, queue, call, callsMade, clear, batch>>

ProbeWind ==
  /\ probe = NoProbe
  /\ \E segment \in WindSegments, windSpeed \in {0, 1, 50, 100},
        windDegree \in WindDegrees, windGust \in {undefined, 150} :
       LET weather == [wind_speed |-> windSpeed, wind_deg |-> windDegree,
                       wind_gust |-> windGust]
       IN probe' = [kind |-> "wind", segment |-> segment, weather |-> weather,
                    out |-> calculateWindImpact(segment, weather)]
  /\ UNCHANGED <<now, store, queue, call, callsMade, clear, batch>>

(* the segment of bearing 90 *)
EastSegment == CHOOSE seg \in WindSegments : seg.id = 100

ProbeRating ==
  /\ probe = NoProbe
  /\ \E windSpeed \in {0, 50, 300, 600}, windDegree \in {0, 90, 180, 270},
        windGust \in {undefined, 900}, temp \in {-300, 0, 200, 300, 500},
        humidity \in {0, 50, 100}, pressure \in {95000, 101300},
        air_density \in {undefined, 12250, 30000} :
       LET weather == [temp |-> temp, feels_like |-> temp,
                       humidity |-> humidity, pressure |-> pressure,
                       wind_speed |-> windSpeed, wind_deg |-> windDegree,
                       wind_gust |-> windGust, air_density |-> air_density,
                       timestamp |-> 3700]
       IN probe' = [kind |-> "rating", weather |-> weather,
                    out |-> analyzeWeatherImpact(EastSegment, weather)]
  /\ UNCHANGED <<now, store, queue, call, callsMade, clear, batch>>

(* two readings that agree on wind and temperature *)
ProbeAnalyzePair ==
  /\ probe = NoProbe
  /\ \E windDegree \in {90, 270}, windGust \in {undefined, 80},
        temp \in {200, 300},
        humidityA \in {50, 80, 100}, humidityB \in {50, 80, 100},
        densityA \in {undefined, 11000, 12250},
        densityB \in {undefined, 11000, 12250} :
       LET weatherA == [temp |-> temp, feels_like |-> temp,
                        humidity |-> humidityA, pressure |-> 101300,
                        wind_speed |-> 50, wind_deg |-> windDegree,
                        wind_gust |-> windGust, air_density |-> densityA,
                        timestamp |-> 3700]
           weatherB == [weatherA EXCEPT !.humidity = humidityB,
                                        !.air_density = densityB]
       IN probe' = [kind |-> "pair", a |-> weatherA, b |-> weatherB,
                    outA |-> analyzeWeatherImpact(EastSegment, weatherA),
                    outB |-> analyzeWeatherImpact(EastSegment, weatherB)]
  /\ UNCHANGED <<now, store, queue, call, callsMade, clear, batch>>

(* a reading with any of temp, humidity, pressure and air_density missing *)
ProbeAirDensity ==
  /\ probe = NoProbe
  /\ \E temp \in {undefined, -100, 0, 150, 200},
        humidity \in {undefined, 0, 50},
        pressure \in {undefined, 101300},
        air_density \in {undefined, 12000} :
       LET weather == [temp |-> temp, humidity |-> humidity,
                       pressure |-> pressure, air_density |-> air_density]
       IN probe' = [kind |-> "airDensity", weather |-> weather,
                    out |-> calculateAirDensityImpact(weather)]
  /\ UNCHANGED <<now, store, queue, call, callsMade, clear, batch>>

(* calculateAirDensity on its own, and the density impact of the reading   *)
(* as getEnhancedWeatherData hands it on (air_density filled in) and as    *)
(* the proxy delivered it (no air_density)                                 *)
ProbeDensity ==
  /\ probe = NoProbe
  /\ \E temp \in {0, 150, 300}, humidity \in {0, 50, 100},
        pressure \in {95000, 101300, 101325} :
       LET airDensity == calculateAirDensity(temp, humidity, pressure)
           weather == [temp |-> temp, humidity |-> humidity,
                       pressure |-> pressure, air_density |-> undefined]
       IN probe' = [kind |-> "density", weather |-> weather,
                    out |-> airDensity,
                    enhanced |-> calculateAirDensityImpact(
                                   [weather EXCEPT !.air_density = airDensity]),
                    bare |-> calculateAirDensityImpact(weather)]
  /\ UNCHANGED <<now, store, queue, call, callsMade, clear, batch>>

(* analyzeWeather of src/services/weatherApi.js.  Grades are in tenths of   *)
(* a percent, distances in metres, wind speeds and temperatures in tenths, *)
(* and the factors in tenths too (1 is 10, -0.5 is -5).                    *)

(* determineSegmentType *)
determineSegmentType(segment) ==
  LET avgGrade == segment.average_grade
  IN IF Falsy(avgGrade) THEN "unknown"
     ELSE IF avgGrade > 30 THEN "climb"
     ELSE IF avgGrade < -30 THEN "descent"
     ELSE IF segment.distance < 500 THEN "sprint"
     ELSE "flat"

(* calculateWindAssistance *)
calculateWindAssistance(wind, segment) ==
  IF Falsy(wind.speed) \/ wind.speed < 10 THEN 0
  ELSE IF ~Falsy(segment.direction)
    THEN LET angleDiff ==
               Abs(JsRem(wind.deg - segment.direction + 180, 360) - 180)
         IN IF angleDiff <= 45 THEN 10
            ELSE IF angleDiff >= 135 THEN -10
            ELSE 0
  ELSE IF wind.speed > 80 THEN 5
  ELSE 2

(* analyzeWeather, lines 173-175: windFactor * -0.5 *)
climbWindFactorOf(windFactor) == -(windFactor \div 2)

(* analyzeWeather: the level, the factors and four times the score (the    *)
(* message is left out); rain1h is current.rain ? current.rain["1h"] : 0   *)
analyzeWeather(weather, segment) ==
  LET current == weather.current
      segmentType == determineSegmentType(segment)
      windAssistance == calculateWindAssistance(current.wind, segment)
      windFactor == IF segmentType = "climb" /\ windAssistance < 0
                      THEN climbWindFactorOf(windAssistance)
                      ELSE windAssistance
      tempFactor == IF current.temp < 50 THEN -8
                    ELSE IF current.temp < 100 THEN -4
                    ELSE IF current.temp > 300 THEN -8
                    ELSE IF current.temp > 250 THEN -4
                    ELSE 5
      precipFactor == IF current.rain1h > 0 THEN -8 ELSE 0
      humidityFactor == IF current.humidity > 85 THEN -4 ELSE 0
      totalScore4 == windFactor + tempFactor + precipFactor + humidityFactor
  IN [level |-> IF totalScore4 > 8 THEN "Favorable"
                ELSE IF totalScore4 < -8 THEN "Unfavorable"
                ELSE "Neutral",
      factors |-> [wind |-> windFactor, temperature |-> tempFactor,
                   precipitation |-> precipFactor, humidity |-> humidityFactor],
      score4 |-> totalScore4,
      segmentType |-> segmentType,
      windAssistance |-> windAssistance]

ProbeAnalyzeWeather ==
  /\ probe = NoProbe
  /\ \E average_grade \in {undefined, -50, 10, 30, 31, 50},
        distance \in {400, 1000}, direction \in {undefined, 90, 225},
        speed \in {5, 50, 100}, deg \in {0, 90, 180, 270},
        temp \in {0, 70, 200, 270, 320}, humidity \in {50, 90},
        rain1h \in {0, 1} :
       LET segment == [average_grade |-> average_grade, distance |-> distance,
                       direction |-> direction]
           weather == [current |-> [wind |-> [speed |-> speed, deg |-> deg],
                                    temp |-> temp, humidity |-> humidity,
                                    rain1h |-> rain1h]]
       IN probe' = [kind |-> "assist", segment |-> segment, weather |-> weather,
                    out |-> analyzeWeather(weather, segment)]
  /\ UNCHANGED <<now, store, queue, call, callsMade, clear, batch>>

AnalysisNext ==
  \/ ProbeTemperature
  \/ ProbeWindClass
  \/ ProbeWind
  \/ ProbeRating
  \/ ProbeAnalyzePair
  \/ ProbeAirDensity
  \/ ProbeDensity
  \/ ProbeAnalyzeWeather

AnalysisSpec == Init /\ [][AnalysisNext]_vars

----------------------------------------------------------------------------
(* decodePolyline on its own *)

MaxPolylineLen == 4

(* "?" (value 0), "@" (-1), "A" (1), and "_" and "`", which carry the      *)
(* continuation bit                                                        *)
PolylineChars == {63, 64, 65, 95, 96}

(* the reference string, the reference string cut short, and every string  *)
(* of up to MaxPolylineLen characters                                      *)
Polylines ==
  {ReferencePolyline}
    \cup {SubSeq(ReferencePolyline, 1, n) : n \in {5, 10, 26}}
    \cup UNION {[1..k -> PolylineChars] : k \in 0..MaxPolylineLen}

ProbeDecode ==
  /\ probe = NoProbe
  /\ \E encodedPolyline \in Polylines :
       probe' = [kind |-> "decode", input |-> encodedPolyline,
                 out |-> decodePolyline(encodedPolyline)]
  /\ UNCHANGED <<now, store, queue, call, callsMade, clear, batch>>

DecodeNext == ProbeDecode

DecodeSpec == Init /\ [][DecodeNext]_vars

----------------------------------------------------------------------------
(* decodePolyline step by step: one run, kept in probe, one action per     *)
(* loop test and per pass of a do-while body.  The code runs to completion *)
(* without yielding, so every step that is enabled is eventually taken.    *)

(* the characters of PolylineChars and the space, whose code is below 63 *)
RunChars == PolylineChars \cup {32}

RunInputs == UNION {[1..k -> RunChars] : k \in 0..MaxPolylineLen}

(* lines 110-114: the latitude is complete, the longitude follows *)
(* variant: the coordinate is pushed after the latitude and the iteration  *)
(* ends there                                                              *)
latDone_SkipLng(p, dlat) ==
  [p EXCEPT !.pc = "while", !.lat = @ + dlat,
            !.coordinates = Append(@, <<p.lat + dlat, p.lng>>)]
latDone(p, dlat) ==
  [p EXCEPT !.pc = "lng", !.lat = @ + dlat, !.shift = 0, !.result = 0]

(* lines 93-97 *)
StartDecode ==
  /\ probe = NoProbe
  /\ \E encodedPolyline \in RunInputs :
       probe' = [kind |-> "decodeRun", input |-> encodedPolyline, pc |-> "while",
                 index |-> 0, len |-> Len(encodedPolyline), lat |-> 0, lng |-> 0,
                 shift |-> 0, result |-> 0, coordinates |-> <<>>,
                 iterationStart |-> 0]
  /\ UNCHANGED <<now, store, queue, call, callsMade, clear, batch>>

(* line 99, and line 128 when the test fails *)
WhileTest ==
  /\ ProbeIs("decodeRun")
  /\ probe.pc = "while"
  /\ probe' = IF probe.index < probe.len
                THEN [probe EXCEPT !.pc = "lat", !.shift = 0, !.result = 0,
                                   !.iterationStart = probe.index]
                ELSE [probe EXCEPT !.pc = "returned"]
  /\ UNCHANGED <<now, store, queue, call, callsMade, clear, batch>>

(* lines 104-108: one pass of the first do-while body *)
LatChunk ==
  /\ ProbeIs("decodeRun")
  /\ probe.pc = "lat"
  /\ LET b == Minus63(charCodeAt(probe.input, probe.index))
         result == probe.result + And0x1f(b) * 2^probe.shift
     IN probe' = IF AtLeast0x20(b)
                   THEN [probe EXCEPT !.index = @ + 1, !.result = result,
                                      !.shift = @ + 5]
                   ELSE latDone([probe EXCEPT !.index = @ + 1], deltaOf(result))
  /\ UNCHANGED <<now, store, queue, call, callsMade, clear, batch>>

(* lines 116-125: one pass of the second do-while body *)
LngChunk ==
  /\ ProbeIs("decodeRun")
  /\ probe.pc = "lng"
  /\ LET b == Minus63(charCodeAt(probe.input, probe.index))
         result == probe.result + And0x1f(b) * 2^probe.shift
         lng == probe.lng + deltaOf(result)
     IN probe' = IF AtLeast0x20(b)
                   THEN [probe EXCEPT !.index = @ + 1, !.result = result,
                                      !.shift = @ + 5]
                   ELSE [probe EXCEPT !.index = @ + 1, !.pc = "while",
                                      !.lng = lng,
                                      !.coordinates = Append(@, <<probe.lat, lng>>)]
  /\ UNCHANGED <<now, store, queue, call, callsMade, clear, batch>>

DecodeRunNext ==
  \/ StartDecode
  \/ WhileTest
  \/ LatChunk
  \/ LngChunk

DecodeRunSpec == Init /\ [][DecodeRunNext]_vars /\ WF_vars(DecodeRunNext)

----------------------------------------------------------------------------
(* getEnhancedWeatherData on its own (src/weather/api.js): one call, kept   *)
(* in probe.  The proxy is free to answer any request with any response.   *)

(* the timestamp argument: null (the default), 0 and two times *)
ApiTimestamps == {undefined, 0, 3700, 7300}

(* a body that is not JSON *)
NotJSON == [notJSON |-> TRUE]

(* response bodies of a successful answer: the historical shape, the       *)
(* current shape, both at once, and shapes with the reading missing        *)
Payloads ==
  { [data |-> <<r>>] : r \in Readings }
    \cup { [current |-> r] : r \in Readings }
    \cup { [data |-> <<r>>, current |-> q] : r, q \in Readings }
    \cup { [data |-> <<>>], [lat |-> 38500] }

(* response bodies of a failed answer: with the provider's message, and    *)
(* without one                                                             *)
ErrorBodies == { [cod |-> 1, message |-> "city not found"], [cod |-> 1] }

StatusTexts == [s \in {401, 404, 500} |->
                  IF s = 401 THEN "Unauthorized"
                  ELSE IF s = 404 THEN "Not Found" ELSE ""]

Responses ==
  { [ok |-> TRUE, status |-> 200, statusText |-> "OK", body |-> b] :
      b \in Payloads \cup {NotJSON} }
    \cup { [ok |-> FALSE, status |-> s, statusText |-> StatusTexts[s], body |-> b] :
             s \in DOMAIN StatusTexts, b \in ErrorBodies \cup {NotJSON} }

NoResponse == [none |-> TRUE]
NoError == [none |-> TRUE]

(* new Error(message): an object with a name and a message *)
Error(message) == [name |-> "Error", message |-> message]
TypeError(message) == [name |-> "TypeError", message |-> message]
SyntaxError(message) == [name |-> "SyntaxError", message |-> message]

(* getHistoricalWeather / getCurrentWeather, lines 21-26 and 51-56:        *)
(* errorData.message || response.statusText                                *)
errorOf(response, errorData) ==
  Error("Weather API error: " \o
          (IF "message" \in DOMAIN errorData /\ errorData.message # ""
             THEN errorData.message ELSE response.statusText))

(* getEnhancedWeatherData, line 115: timestamp ? weatherData.data[0]       *)
(* : weatherData.current                                                   *)
(* variant: the shape is chosen by timestamp != null *)
UnwrapsHistorical_NotNull(timestamp) == timestamp # undefined
UnwrapsHistorical(timestamp) == ~Falsy(timestamp)

(* lines 115-122: the unwrapped reading, or the TypeError of reading a     *)
(* property of undefined                                                   *)
unwrap(weatherData, timestamp) ==
  IF UnwrapsHistorical(timestamp)
    THEN IF "data" \in DOMAIN weatherData
           THEN IF Len(weatherData.data) >= 1
                  THEN [path |-> "data[0]", thrown |-> FALSE,
                        data |-> weatherData.data[1]]
                  ELSE [path |-> "data[0]", thrown |-> TRUE,
                        error |-> TypeError("reading 'temp' of undefined")]
           ELSE [path |-> "data[0]", thrown |-> TRUE,
                 error |-> TypeError("reading '0' of undefined")]
    ELSE IF "current" \in DOMAIN weatherData
           THEN [path |-> "current", thrown |-> FALSE,
                 data |-> weatherData.current]
           ELSE [path |-> "current", thrown |-> TRUE,
                 error |-> TypeError("reading 'temp' of undefined")]

(* getEnhancedWeatherData(lat, lng, timestamp) is called and issues its    *)
(* request                                                                 *)
GetEnhancedWeatherData ==
  /\ probe = NoProbe
  /\ \E timestamp \in ApiTimestamps :
       probe' = [kind |-> "api", pc |-> "awaitFetch", timestamp |-> timestamp,
                 request |-> RequestFor(38500, -120200, timestamp),
                 response |-> NoResponse, path |-> "none",
                 result |-> NoReading, error |-> NoError]
  /\ UNCHANGED <<now, store, queue, call, callsMade, clear, batch>>

(* fetch settles: it rejects when the network fails, and resolves with the *)
(* response otherwise, whatever its status                                 *)
FetchSettles ==
  /\ ProbeIs("api")
  /\ probe.pc = "awaitFetch"
  /\ \/ probe' = [probe EXCEPT !.pc = "rejected",
                                !.error = TypeError("Failed to fetch")]
     \/ \E response \in Responses :
          probe' = [probe EXCEPT !.pc = "awaitJson", !.response = response]
  /\ UNCHANGED <<now, store, queue, call, callsMade, clear, batch>>

(* response.json() settles, and getEnhancedWeatherData runs to its end *)
JsonSettles ==
  /\ ProbeIs("api")
  /\ probe.pc = "awaitJson"
  /\ LET response == probe.response
     IN IF response.body = NotJSON
          THEN probe' = [probe EXCEPT !.pc = "rejected",
                                      !.error = SyntaxError("Unexpected token")]
          ELSE IF ~response.ok
          THEN probe' = [probe EXCEPT !.pc = "rejected",
                                      !.error = errorOf(response, response.body)]
          ELSE LET u == unwrap(response.body, probe.timestamp)
               IN IF u.thrown
                    THEN probe' = [probe EXCEPT !.pc = "rejected",
                                                !.path = u.path,
                                                !.error = u.error]
                    ELSE probe' = [probe EXCEPT
                                     !.pc = "resolved", !.path = u.path,
                                     !.result = Enhance(u.data, probe.timestamp, now)]
  /\ UNCHANGED <<now, store, queue, call, callsMade, clear, batch>>

ApiNext ==
  \/ Tick
  \/ GetEnhancedWeatherData
  \/ FetchSettles
  \/ JsonSettles

ApiSpec == Init /\ [][ApiNext]_vars

----------------------------------------------------------------------------
(* getValidAccessToken and refreshAccessToken (src/auth.js): calls made    *)
(* one after the other, the one in progress kept in probe, while the clock *)
(* advances and the user may log out.  A storage request is served, and    *)
(* its callback run, in one step.                                          *)

STORAGE_KEY == "strava_auth_data"

(* auth data as authenticate and refreshAccessToken store it (received_at  *)
(* and expires_in in seconds), with and without a refresh_token            *)
StoredAuthData ==
  { [access_token |-> "tok", refresh_token |-> "ref", received_at |-> 3000,
     expires_in |-> e] : e \in {899, 900, 901, 21600} }
    \cup { [access_token |-> "tok", received_at |-> 3000, expires_in |-> 900] }

(* the bodies of a successful answer of the proxy's /refresh *)
RefreshBodies ==
  { [access_token |-> "tok2", refresh_token |-> "ref2", expires_in |-> 21600],
    [access_token |-> "tok2", expires_in |-> 21600] }

EmptyStore == [k \in {} |-> NoObj]

AuthInit ==
  /\ now = Now0
  /\ store \in {EmptyStore} \cup {[k \in {STORAGE_KEY} |-> a] : a \in StoredAuthData}
  /\ queue = <<>>
  /\ call = [c \in Callers |-> IdleCall]
  /\ callsMade = 0
  /\ clear = [pc |-> "idle", made |-> 0]
  /\ probe = NoProbe
  /\ batch = IdleBatch

(* getAuthData: result[CONFIG.STORAGE_KEY] || null *)
getAuthData(s) == IF STORAGE_KEY \in DOMAIN s THEN s[STORAGE_KEY] ELSE null

(* getValidAccessToken, lines 212-215 *)
(* variant: the token is refreshed only once it has expired *)
expirationTimeOf_NoBuffer(authData) == authData.received_at + authData.expires_in
expirationTimeOf(authData) == authData.received_at + authData.expires_in - 300

NeedsRefresh(authData, t) == t \div 1000 >= expirationTimeOf(authData)

(* refreshAccessToken, lines 179-187: the data it saves *)
newAuthDataOf(body, authData, t) ==
  [access_token |-> body.access_token,
   refresh_token |-> IF "refresh_token" \in DOMAIN body
                       THEN body.refresh_token ELSE authData.refresh_token,
   expires_in |-> body.expires_in,
   received_at |-> t \div 1000]

AuthRejected(p, message) == [p EXCEPT !.pc = "rejected", !.error = message]

(* getValidAccessToken is called *)
GetValidAccessToken ==
  /\ probe = NoProbe
  /\ callsMade < MaxCalls
  /\ callsMade' = callsMade + 1
  /\ probe' = [kind |-> "auth", pc |-> "awaitGetAuthData", authData |-> null,
               response |-> null, newAuthData |-> null, requests |-> 0,
               refreshed |-> FALSE,
               result |-> "", error |-> ""]
  /\ UNCHANGED <<now, store, queue, call, clear, batch>>

(* line 204: getAuthData settles, and getValidAccessToken runs up to the   *)
(* call of refreshAccessToken or to its return                             *)
AuthDataCallback ==
  /\ ProbeIs("auth")
  /\ probe.pc = "awaitGetAuthData"
  /\ \E lastError \in BOOLEAN :
       LET authData == getAuthData(store)
       IN probe' =
            IF lastError THEN AuthRejected(probe, "storage")
            ELSE IF authData = null
              THEN AuthRejected(probe,
                     "No authentication data found. Please authenticate.")
            ELSE IF NeedsRefresh(authData, now)
              THEN [probe EXCEPT !.pc = "refreshAwaitGetAuthData",
                                 !.authData = authData, !.refreshed = TRUE]
              ELSE [probe EXCEPT !.pc = "resolved", !.authData = authData,
                                 !.result = authData.access_token]
  /\ UNCHANGED <<now, store, queue, call, callsMade, clear, batch>>

(* refreshAccessToken, lines 154-170: its own getAuthData settles and the  *)
(* request to the proxy is sent                                            *)
RefreshAuthDataCallback ==
  /\ ProbeIs("auth")
  /\ probe.pc = "refreshAwaitGetAuthData"
  /\ \E lastError \in BOOLEAN :
       LET authData == getAuthData(store)
       IN probe' =
            IF lastError THEN AuthRejected(probe, "storage")
            ELSE IF authData = null \/ ~("refresh_token" \in DOMAIN authData)
              THEN AuthRejected(probe,
                     "No refresh token available. Please authenticate again.")
              ELSE [probe EXCEPT !.pc = "awaitRefresh", !.authData = authData,
                                 !.requests = @ + 1]
  /\ UNCHANGED <<now, store, queue, call, callsMade, clear, batch>>

(* lines 161-189: the proxy answers, and saveAuthData is called *)
RefreshResponse ==
  /\ ProbeIs("auth")
  /\ probe.pc = "awaitRefresh"
  /\ \/ probe' = AuthRejected(probe, "Failed to fetch")
     \/ probe' = AuthRejected(probe, "Token refresh failed: Token refresh failed")
     \/ \E body \in RefreshBodies :
          probe' = [probe EXCEPT !.pc = "awaitSave", !.response = body,
                                 !.newAuthData = newAuthDataOf(body, probe.authData, now)]
  /\ UNCHANGED <<now, store, queue, call, callsMade, clear, batch>>

(* saveAuthData settles; refreshAccessToken returns newAuthData and        *)
(* getValidAccessToken its access_token                                    *)
SaveAuthDataCallback ==
  /\ ProbeIs("auth")
  /\ probe.pc = "awaitSave"
  /\ \E lastError \in BOOLEAN :
       IF lastError
         THEN /\ probe' = AuthRejected(probe, "storage")
              /\ store' = store
         ELSE /\ probe' = [probe EXCEPT !.pc = "resolved",
                                        !.result = probe.newAuthData.access_token]
              /\ store' = StoreSet(store, STORAGE_KEY, probe.newAuthData)
  /\ UNCHANGED <<now, queue, call, callsMade, clear, batch>>

(* the caller consumes the settled promise *)
AuthReturn ==
  /\ ProbeIs("auth")
  /\ probe.pc \in {"resolved", "rejected"}
  /\ probe' = NoProbe
  /\ UNCHANGED <<now, store, queue, call, callsMade, clear, batch>>

(* logout: the stored auth data is removed *)
Logout ==
  /\ STORAGE_KEY \in DOMAIN store
  /\ store' = StoreRemove(store, {STORAGE_KEY})
  /\ UNCHANGED <<now, queue, call, callsMade, clear, probe, batch>>

AuthNext ==
  \/ Tick
  \/ GetValidAccessToken
  \/ AuthDataCallback
  \/ RefreshAuthDataCallback
  \/ RefreshResponse
  \/ SaveAuthDataCallback
  \/ AuthReturn
  \/ Logout

AuthSpec == AuthInit /\ [][AuthNext]_vars

----------------------------------------------------------------------------
(* Properties *)

WeatherKeys(s) == {k \in DOMAIN s : StartsWith(k, WEATHER_CACHE_PREFIX)}

(* the step in which the storage read of call c is answered without error *)
GetAnswered(c) ==
  /\ call[c].pc = "awaitGet"
  /\ call'[c].pc \in {"resolved", "awaitFetch"}

(* the step in which the storage write of call c is answered without error *)
SetAnswered(c) ==
  /\ call[c].pc = "awaitSet"
  /\ call'[c].pc = "resolved"

(* C1: the entry written by cacheWeatherData holds the reading and the time *)
(* of the write; a lookup of a stored entry resolves to its reading while   *)
(* now - cachedAt <= 48h and to null (a miss, followed by a fetch) once     *)
(* now - cachedAt > 48h.                                                    *)
C1_CacheRoundTrip ==
  [][\A c \in Callers :
       /\ SetAnswered(c) =>
            /\ call[c].cacheKey \in DOMAIN store'
            /\ store'[call[c].cacheKey].data = call[c].weatherData
            /\ store'[call[c].cacheKey].cachedAt = call[c].cachedAt
       /\ (GetAnswered(c) /\ call[c].cacheKey \in DOMAIN store) =>
            IF now - store[call[c].cacheKey].cachedAt <= CACHE_EXPIRATION
              THEN /\ call'[c].pc = "resolved"
                   /\ call'[c].weatherData = store[call[c].cacheKey].data
              ELSE /\ call'[c].pc = "awaitFetch"
                   /\ call'[c].weatherData = NoReading]_vars

C1_Witness ==
  \E c \in Callers :
    /\ call[c].pc = "resolved"
    /\ call[c].cached
    /\ call[c].cacheKey \in DOMAIN store
    /\ call[c].weatherData = store[call[c].cacheKey].data
    /\ now - store[call[c].cacheKey].cachedAt = CACHE_EXPIRATION

(* C2: a failed storage read never makes getWeatherData reject: no call is  *)
(* rejected with a storage error before it has issued its upstream fetch.   *)
C2_ReadFailureIsMiss ==
  \A c \in Callers :
    ~(call[c].pc = "rejected" /\ call[c].error = "storage" /\ call[c].fetches = 0)

(* C3: a failed storage write never makes getWeatherData reject: no call    *)
(* that holds a fetched reading is rejected with a storage error.           *)
C3_WriteFailureStillResolves ==
  \A c \in Callers :
    ~(/\ call[c].pc = "rejected"
      /\ call[c].error = "storage"
      /\ call[c].fetches = 1
      /\ call[c].weatherData # NoReading)

(* C4: every call that misses issues its own upstream fetch, whatever the   *)
(* other calls are doing, and every answered write leaves under the key     *)
(* exactly the writer's own {data, cachedAt} object, so the entry is that   *)
(* of the write answered last.                                              *)
C4_NoSingleFlight ==
  [][\A c \in Callers :
       /\ (call[c].pc = "awaitGet" /\ call'[c].pc = "awaitFetch") =>
            /\ call'[c].fetches = 1
            /\ call'[c].request.kind # "none"
       /\ SetAnswered(c) =>
            /\ call[c].fetches = 1
            /\ call[c].sets = 1
            /\ store'[call[c].cacheKey] =
                 [data |-> call[c].weatherData, cachedAt |-> call[c].cachedAt]]_vars

C4_Witness ==
  /\ call[1].pc = "resolved" /\ call[2].pc = "resolved"
  /\ call[1].cacheKey = call[2].cacheKey
  /\ ~call[1].cached /\ ~call[2].cached
  /\ call[1].fetches = 1 /\ call[2].fetches = 1
  /\ call[1].sets = 1 /\ call[2].sets = 1
  /\ call[1].weatherData # call[2].weatherData
  /\ call[1].cachedAt # call[2].cachedAt
  /\ call[1].cacheKey \in DOMAIN store
  /\ store[call[1].cacheKey] =
       [data |-> call[2].weatherData, cachedAt |-> call[2].cachedAt]

(* C5: the upstream request is historical (dt sent) exactly when the caller *)
(* gave a timestamp, and current (no dt) when the caller gave none.         *)
C5_RequestFollowsCallerTimestamp ==
  \A c \in Callers :
    call[c].request.kind # "none" =>
      IF Falsy(call[c].timestampArg)
        THEN call[c].request.kind = "current" /\ call[c].request.dt = undefined
        ELSE call[c].request.kind = "historical"
             /\ call[c].request.dt = call[c].timestampArg

(* C6: a lookup that finds an entry not older than 48h resolves the call    *)
(* with the analysis of the cached reading, with no fetch and no storage    *)
(* request issued; a call that missed resolves after exactly one fetch and  *)
(* one write, with the fetched reading stored under its key and analysed.   *)
C6_HitSkipsFetchMissFetchesOnce ==
  [][\A c \in Callers :
       /\ (/\ GetAnswered(c)
           /\ call[c].cacheKey \in DOMAIN store
           /\ now - store[call[c].cacheKey].cachedAt <= CACHE_EXPIRATION) =>
            /\ call'[c].pc = "resolved"
            /\ call'[c].fetches = 0
            /\ call'[c].sets = 0
            /\ call'[c].request = NoRequest
            /\ queue' = Tail(queue)
            /\ store' = store
            /\ call'[c].result =
                 analyzeWeatherImpact(SegmentOf(call[c].segment),
                                      store[call[c].cacheKey].data)
       /\ SetAnswered(c) =>
            /\ call'[c].fetches = 1
            /\ call'[c].sets = 1
            /\ ~call'[c].cached
            /\ store'[call[c].cacheKey].data = call[c].weatherData
            /\ call'[c].result =
                 analyzeWeatherImpact(SegmentOf(call[c].segment),
                                      call[c].weatherData)]_vars

C6_Witness ==
  \E c \in Callers :
    /\ call[c].pc = "resolved"
    /\ call[c].cached
    /\ call[c].fetches = 0
    /\ call[c].result.timestamp = store[call[c].cacheKey].data.timestamp
    /\ call[c].result.weather.temp = store[call[c].cacheKey].data.temp

(* C7: a call issues at most one upstream request, and a call rejected by a *)
(* failed request has issued exactly one request and no cache write.        *)
C7_NoRetry ==
  \A c \in Callers :
    /\ call[c].fetches <= 1
    /\ (call[c].pc = "rejected" /\ call[c].error \in {"httpError", "networkError"}) =>
         /\ call[c].fetches = 1
         /\ call[c].sets = 0
         /\ \A i \in 1..Len(queue) :
              ~(queue[i].op = "set" /\ queue[i].caller = c)

C7_Witness ==
  \E c \in Callers :
    /\ call[c].pc = "rejected"
    /\ call[c].error = "httpError"
    /\ call[c].fetches = 1
    /\ call[c].cacheKey \in DOMAIN store

(* C8: a lookup of an entry older than 48h resolves null and issues the     *)
(* removal of that key; a lookup of an entry aged 48h or less returns it    *)
(* and issues nothing; a removal is issued only by such a lookup or by      *)
(* clearWeatherCache, and an entry leaves the store only when a removal     *)
(* naming its key is served.                                                *)
C8_LazyEviction ==
  [][/\ \A c \in Callers :
          (GetAnswered(c) /\ call[c].cacheKey \in DOMAIN store) =>
             IF now - store[call[c].cacheKey].cachedAt > CACHE_EXPIRATION
               THEN /\ call'[c].pc = "awaitFetch"
                    /\ queue' = Append(Tail(queue),
                                  [op |-> "remove", caller |-> c,
                                   keys |-> {call[c].cacheKey}, obj |-> NoObj])
               ELSE /\ call'[c].weatherData = store[call[c].cacheKey].data
                    /\ queue' = Tail(queue)
                    /\ store' = store
     /\ \A k \in DOMAIN store :
          k \notin DOMAIN store' =>
             /\ queue # <<>>
             /\ Head(queue).op \in {"remove", "removeKeys"}
             /\ k \in Head(queue).keys
             /\ queue' = Tail(queue)
     /\ \A i \in 1..Len(queue') :
          (/\ queue'[i].op \in {"remove", "removeKeys"}
           /\ \A j \in 1..Len(queue) : queue[j] # queue'[i]) =>
             IF queue'[i].op = "remove"
               THEN \E c \in Callers :
                      /\ call[c].pc = "awaitGet"
                      /\ call[c].cacheKey \in DOMAIN store
                      /\ now - store[call[c].cacheKey].cachedAt > CACHE_EXPIRATION
                      /\ queue'[i].keys = {call[c].cacheKey}
               ELSE /\ clear.pc = "awaitGetAll"
                    /\ queue'[i].keys = WeatherKeys(store)]_vars

C8_Witness ==
  \E c \in Callers :
    /\ call[c].pc = "awaitFetch"
    /\ call[c].evicted
    /\ call[c].cacheKey \notin DOMAIN store
    /\ clear.made = 0

C10_QuantizeIdempotent ==
  probe # NoProbe => probe.again = probe.keyA

C10_Witness ==
  /\ probe # NoProbe
  /\ probe.a[1] % 1000 # 0 /\ probe.a[2] % 1000 # 0 /\ probe.a[3] % 3600 # 0
  /\ probe.again = probe.keyA
  /\ probe.keyA = "weather_data_-0.001_-120.201_3600"

(* C17: for a wind speed above 0, wind from 180 degrees off the bearing    *)
(* calculateWindImpact uses gives effectiveWindSpeed < 0, a negative time  *)
(* impact and tailwind; wind from the bearing itself gives                 *)
(* effectiveWindSpeed > 0, a positive time impact and headwind; the time   *)
(* impact is always 3 x effectiveWindSpeed.                                *)
C17_TailwindIsNegative ==
  ProbeIs("wind") =>
    LET bearing == calculateSegmentDirection(probe.segment)
        windDegree == probe.weather.wind_deg
        r == probe.out
    IN /\ r.estimatedTimeImpact = 3 * r.effectiveWindSpeed
       /\ (probe.weather.wind_speed > 0 /\ Abs(windDegree - bearing) = 180) =>
            /\ r.effectiveWindSpeed < 0
            /\ r.estimatedTimeImpact < 0
            /\ r.tailwind /\ ~r.headwind
       /\ (probe.weather.wind_speed > 0 /\ windDegree = bearing) =>
            /\ r.effectiveWindSpeed > 0
            /\ r.estimatedTimeImpact > 0
            /\ r.headwind /\ ~r.tailwind

C17_Witness ==
  /\ ProbeIs("wind")
  /\ calculateSegmentDirection(probe.segment) = 90
  /\ probe.weather.wind_deg = 270
  /\ probe.weather.wind_speed = 50
  /\ probe.out.effectiveWindSpeed = -5000000
  /\ probe.out.estimatedTimeImpact = -15000000
  /\ probe.out.tailwind

(* the place of a bucket in the ladder, 1 = Calm *)
Rank(bucket) == CHOOSE i \in 1..Len(WindLadder) : WindLadder[i] = bucket

(* the number of thresholds a speed has reached *)
ThresholdsReached(s) ==
  Cardinality({i \in 1..Len(WindThresholds) : s >= WindThresholds[i]})

WindClassLaw ==
  /\ probe.viaImpact = probe.bucket1
  /\ Rank(probe.bucket1) = 1 + ThresholdsReached(probe.s1)
  /\ Rank(probe.bucket2) = 1 + ThresholdsReached(probe.s2)
  /\ probe.s1 <= probe.s2 => Rank(probe.bucket1) <= Rank(probe.bucket2)

(* C18 as stated: the bucket depends on the speed only, is monotonic,      *)
(* changes exactly at the 12 thresholds (a threshold speed belongs to the  *)
(* higher bucket), and the ladder has 12 buckets.                          *)
C18_TwelveBucketLadder ==
  ProbeIs("windClass") =>
    /\ WindClassLaw
    /\ Rank(probe.bucket1) \in 1..12

(* C18, amended: the bucket depends on the speed only, is monotonic and    *)
(* changes exactly at the 12 thresholds (a threshold speed belongs to the  *)
(* higher bucket); 12 thresholds separate 13 buckets, Calm to Hurricane.   *)
C18_ThirteenBucketLadder ==
  ProbeIs("windClass") =>
    /\ WindClassLaw
    /\ Rank(probe.bucket1) \in 1..13
    /\ Len(WindLadder) = Len(WindThresholds) + 1

C18_Witness ==
  /\ ProbeIs("windClass")
  /\ probe.s1 = 326 /\ probe.bucket1 = "Hurricane"
  /\ probe.s2 = 325 /\ probe.bucket2 = "Violent Storm"
  /\ Rank(probe.bucket1) = 13

(* C19: calculateTemperatureImpact gives a time impact of 0 for every      *)
(* temperature from 15 to 25 degrees, both included, (15 - temp) x 0.5     *)
(* below 15 and (temp - 25) x 1.0 above 25; the impact is never negative   *)
(* and optimal is true exactly when it is 0.                               *)
C19_TemperatureImpact ==
  ProbeIs("temperature") =>
    LET temp == probe.weather.temp
        r == probe.out
    IN /\ (temp >= 150 /\ temp <= 250) => r.estimatedTimeImpact = 0
       /\ temp < 150 => r.estimatedTimeImpact = (150 - temp) * 50000
       /\ temp > 250 => r.estimatedTimeImpact = (temp - 250) * 100000
       /\ r.estimatedTimeImpact >= 0
       /\ r.optimal <=> r.estimatedTimeImpact = 0

C19_Witness ==
  /\ ProbeIs("temperature")
  /\ probe.weather.temp = 250
  /\ probe.out.optimal
  /\ probe.out.estimatedTimeImpact = 0

(* C11: the rating calculateWeatherRating returns, which analysis.rating   *)
(* exposes, is an integer from 0 to 100, whatever the wind, temperature,   *)
(* air density and humidity.                                               *)
C11_RatingInRange ==
  ProbeIs("rating") =>
    LET c == probe.out.components
    IN /\ probe.out.rating \in 0..100
       /\ probe.out.rating =
            calculateWeatherRating(c.wind, c.temperature, c.airDensity,
                                   probe.weather.humidity)

C11_Witness ==
  /\ ProbeIs("rating")
  /\ probe.weather.wind_speed = 600
  /\ probe.out.components.wind.headwind
  /\ MathRoundHalf(Score2(probe.out.components.wind,
                          probe.out.components.temperature,
                          probe.out.components.airDensity,
                          probe.weather.humidity)) < 0
  /\ probe.out.rating = 0

(* the rating worked out from the components as the claim words it: 100    *)
(* less the wind and temperature penalties, less 0.5 x |densityDifference| *)
(* and, only above 25 degrees and 70 percent, 0.2 x (humidity - 70)        *)
RatingAsStated(out, weather) ==
  LET c == out.components
      base2 == 200000000 - 4 * Abs(c.wind.effectiveWindSpeed)
                 - 3 * Abs(c.wind.crosswindComponent)
                 - 6 * Abs(c.wind.gustImpact)
                 - 3 * Abs(c.temperature.estimatedTimeImpact)
      humid2 == IF weather.temp > 250 /\ weather.humidity > 70
                  THEN (weather.humidity - 70) * 400000 ELSE 0
      score2 == base2 - Abs(c.airDensity.densityDifference) - humid2
  IN Max(0, Min(100, (score2 + 1000000) \div 2000000))

(* C12: two readings with the same wind speed, direction, gust and         *)
(* temperature get the same estimatedTimeImpact, the wind impact plus the  *)
(* temperature impact, whatever their humidity and air density; the rating *)
(* takes both into account.                                                *)
C12_AsymmetricWeighting ==
  ProbeIs("pair") =>
    /\ probe.outA.estimatedTimeImpact = probe.outB.estimatedTimeImpact
    /\ probe.outA.estimatedTimeImpact =
         probe.outA.components.wind.estimatedTimeImpact
           + probe.outA.components.temperature.estimatedTimeImpact
    /\ probe.outA.rating = RatingAsStated(probe.outA, probe.a)
    /\ probe.outB.rating = RatingAsStated(probe.outB, probe.b)

C12_Witness ==
  /\ ProbeIs("pair")
  /\ probe.a.temp = 300
  /\ probe.a.humidity = 80 /\ probe.b.humidity = 100
  /\ probe.a.air_density = probe.b.air_density
  /\ probe.outA.estimatedTimeImpact = probe.outB.estimatedTimeImpact
  /\ probe.outA.rating = probe.outB.rating + 4

(* C20: for a reading without air_density, calculateAirDensityImpact uses  *)
(* the density computed from temperature, humidity and pressure whenever   *)
(* the three are supplied, 0 degrees and 0 percent included, and 1.225     *)
(* only when one of them is missing.                                       *)
C20_ComputedDensityForEverySuppliedValue ==
  (ProbeIs("airDensity") /\ probe.weather.air_density = undefined) =>
    LET w == probe.weather
    IN IF w.temp # undefined /\ w.humidity # undefined /\ w.pressure # undefined
         THEN probe.out.airDensity =
                calculateAirDensity(w.temp, w.humidity, w.pressure)
         ELSE probe.out.airDensity = 12250

(* the positions of the characters that end a value (no continuation bit) *)
ValueEnds(str) == {i \in 1..Len(str) : str[i] - 63 < 32}

RECURSIVE SumOver(_, _)
SumOver(f, S) ==
  IF S = {} THEN 0
  ELSE LET x == CHOOSE y \in S : TRUE IN f[x] + SumOver(f, S \ {x})

(* the zig-zag-decoded value whose last character is at position i: its    *)
(* characters are 5-bit chunks, least significant first                    *)
ValueAt(str, i) ==
  LET before == {j \in ValueEnds(str) : j < i}
      start == IF before = {} THEN 1
               ELSE 1 + CHOOSE j \in before : \A k \in before : k <= j
      raw == SumOver([j \in start..i |-> ((str[j] - 63) % 32) * 32^(j - start)],
                     start..i)
  IN IF raw % 2 = 1 THEN -((raw + 1) \div 2) ELSE raw \div 2

(* the ordinal (1, 2, ...) of the value that ends at position i *)
Ordinal(str, i) == Cardinality({j \in ValueEnds(str) : j <= i})

(* a string that ends in the middle of a value, or after a latitude delta  *)
(* with no longitude delta                                                 *)
Malformed(str) ==
  \/ Len(str) > 0 /\ Len(str) \notin ValueEnds(str)
  \/ Cardinality(ValueEnds(str)) % 2 = 1

(* C15: on a malformed string decodePolyline fails with a DecodeError and  *)
(* returns no coordinates.                                                 *)
C15_MalformedInputIsRejected ==
  (ProbeIs("decode") /\ Malformed(probe.input)) =>
    /\ probe.out.thrown = "DecodeError"
    /\ probe.out.coordinates = <<>>

(* C16: the reference string decodes to exactly (3850000, -12020000),      *)
(* (4070000, -12095000), (4325200, -12645300); for every well-formed       *)
(* string the k-th coordinate is the sum of the first k latitude deltas    *)
(* and the sum of the first k longitude deltas, each delta the zig-zag     *)
(* decoding of its 5-bit chunks.                                           *)
C16_ReferenceDecoding ==
  ProbeIs("decode") =>
    LET str == probe.input
        coordinates == probe.out.coordinates
        ends == ValueEnds(str)
        values == [i \in ends |-> ValueAt(str, i)]
    IN /\ str = ReferencePolyline =>
            coordinates = << <<3850000, -12020000>>, <<4070000, -12095000>>,
                             <<4325200, -12645300>> >>
       /\ ~Malformed(str) =>
            /\ Len(coordinates) * 2 = Cardinality(ends)
            /\ \A k \in 1..Len(coordinates) :
                 /\ coordinates[k][1] =
                      SumOver(values, {i \in ends : Ordinal(str, i) % 2 = 1
                                                    /\ Ordinal(str, i) <= 2 * k})
                 /\ coordinates[k][2] =
                      SumOver(values, {i \in ends : Ordinal(str, i) % 2 = 0
                                                    /\ Ordinal(str, i) <= 2 * k})

C16_Witness ==
  /\ ProbeIs("decode")
  /\ probe.input = ReferencePolyline
  /\ Len(probe.out.coordinates) = 3
  /\ probe.out.coordinates[1] = <<3850000, -12020000>>
  /\ probe.out.coordinates[3] = <<4325200, -12645300>>

(* C13: a call of getWeatherImpact on a segment without coordinates goes   *)
(* on with coordinates decoded from the segment's encoded path when it has *)
(* one, and otherwise is rejected with a ValidationError before any cache  *)
(* access or upstream request.                                             *)
C13_CoordinatesFromPathOrValidationError ==
  \A c \in Callers :
    \A seg \in BareSegments :
      (call[c].pc # "idle" /\ call[c].segment = seg.id) =>
        IF "map" \in DOMAIN seg
          THEN LET path == decodePolyline(seg.map.polyline).coordinates
               IN /\ call[c].error # "TypeError"
                  /\ call[c].lat = (path[1][1] + path[Len(path)][1]) * 5
                  /\ call[c].lng = (path[1][2] + path[Len(path)][2]) * 5
          ELSE /\ call[c].pc = "rejected"
               /\ call[c].error = "ValidationError"
               /\ call[c].fetches = 0
               /\ call[c].cacheKey = NoKey

FailureOutcomes ==
  {"details:lastError", "details:error", "details:noData",
   "effort:lastError", "effort:error", "effort:noData",
   "weather:lastError", "weather:error", "weather:noData",
   "segment:rejected", "segment:noLocation", "current:rejected"}

ErrorIndicators ==
  {Cell("weather-error", "Error retrieving weather data"),
   Cell("weather-error", "Error retrieving segment data"),
   Cell("weather-error", "No weather data"),
   Cell("weather-info", "No efforts found"),
   Cell("gray", "No data")}

RowWaiting(r) ==
  batch.rows[r].pc \in {"awaitCache", "awaitDetails", "awaitEffort",
                        "awaitWeather", "awaitSegment", "awaitCurrent"}

RowStep(r) ==
  \/ RowCacheCallback(r) \/ RowDetailsResponse(r) \/ RowEffortResponse(r)
  \/ RowWeatherResponse(r) \/ ColumnSegmentResponse(r)
  \/ ColumnWeatherResponse(r)

(* C14: in a batch of rows, a failed segment-details, effort or weather    *)
(* request ends the row with an error or no-data indicator in its own cell *)
(* and changes no other row; every other row can still take its next      *)
(* step, no row's promise is left rejected, and Promise.all is fulfilled   *)
(* only with every row done.                                               *)
C14_PerSegmentIsolation ==
  /\ [](\A r \in Rows :
          /\ batch.rows[r].pc # "rejected"
          /\ batch.rows[r].outcome \in FailureOutcomes =>
               /\ batch.rows[r].pc = "done"
               /\ batch.rows[r].cell \in ErrorIndicators
          /\ RowWaiting(r) => ENABLED RowStep(r))
  /\ [](batch.all = "complete" => \A r \in Rows : batch.rows[r].pc = "done")
  /\ [][\A r \in Rows :
          (batch.pc # "idle" /\ batch'.rows[r] # batch.rows[r]) =>
             \A q \in Rows \ {r} : batch'.rows[q] = batch.rows[q]]_vars

C14_Witness ==
  /\ batch.pc = "rows"
  /\ batch.rows[1].pc = "done"
  /\ batch.rows[1].outcome = "weather:error"
  /\ batch.rows[1].cell = Cell("weather-error", "Error retrieving weather data")
  /\ batch.rows[2].pc = "done"
  /\ batch.rows[2].outcome = "weather:data"
  /\ batch.rows[2].cell.class = "weather-container"

----------------------------------------------------------------------------
(* C21: calculateAirDensity(15, 0, 1013.25) is within 1% of 1.225 kg/m3,   *)
(* it equals pressure x 100 / (287.05 x 288.15) since the vapor term is    *)
(* zero at humidity 0, and the densityDifference of that reading is within *)
(* 1% of zero, whether or not the reading carries air_density.             *)
StandardAtmosphere(weather) ==
  weather.temp = 150 /\ weather.humidity = 0 /\ weather.pressure = 101325

C21_StandardAtmosphereDensity ==
  (ProbeIs("density") /\ StandardAtmosphere(probe.weather)) =>
     /\ Abs(probe.out - 12250) * 100 <= 12250
     /\ probe.out = Quotient4(101325 * 100, (28705 * 28815) \div 100)
     /\ Abs(probe.enhanced.densityDifference) <= 1000000
     /\ Abs(probe.bare.densityDifference) <= 1000000

C21_Witness ==
  /\ ProbeIs("density")
  /\ StandardAtmosphere(probe.weather)
  /\ probe.out = 12250
  /\ probe.enhanced.airDensity = probe.out

----------------------------------------------------------------------------
(* C22: when the proxy answers with a non-success status the call rejects  *)
(* with an error that carries the HTTP status code and the provider's      *)
(* message; when the payload lacks the reading the call rejects and        *)
(* returns no reading.                                                     *)
Settled == ProbeIs("api") /\ probe.pc \in {"resolved", "rejected"}

LacksReading(response, request) ==
  /\ response.ok
  /\ response.body # NotJSON
  /\ IF request.kind = "historical"
       THEN ~("data" \in DOMAIN response.body) \/ Len(response.body.data) = 0
       ELSE ~("current" \in DOMAIN response.body)

C22_UpstreamErrorCarriesStatusAndMessage ==
  (Settled /\ probe.response # NoResponse) =>
     /\ ~probe.response.ok =>
          /\ probe.pc = "rejected"
          /\ "status" \in DOMAIN probe.error
          /\ probe.error.status = probe.response.status
          /\ ("message" \in DOMAIN probe.response.body
                => probe.error.message =
                     "Weather API error: " \o probe.response.body.message)
     /\ LacksReading(probe.response, probe.request) =>
          probe.pc = "rejected" /\ probe.result = NoReading

----------------------------------------------------------------------------
(* C23: the shape getEnhancedWeatherData unwraps follows the request it    *)
(* made and not the response: data[0] exactly when it sent the historical  *)
(* request (dt sent), current exactly when it sent the current request (no *)
(* dt), for every timestamp including 0 and null and whatever shapes the   *)
(* response holds.                                                         *)
C23_UnwrapFollowsRequest ==
  ProbeIs("api") =>
    /\ (probe.request.kind = "historical") = (probe.request.dt # undefined)
    /\ (probe.pc \in {"resolved", "rejected"} /\ probe.response # NoResponse
          /\ probe.response.ok /\ probe.response.body # NotJSON)
         => /\ probe.path \in {"data[0]", "current"}
            /\ (probe.path = "data[0]") = (probe.request.kind = "historical")
            /\ (probe.path = "current") = (probe.request.kind = "current")
    /\ probe.pc = "resolved" =>
         LET body == probe.response.body
             data == IF probe.request.kind = "historical"
                       THEN body.data[1] ELSE body.current
         IN /\ probe.result.temp = data.temp
            /\ probe.result.wind_gust = data.wind_gust

C23_Witness ==
  /\ ProbeIs("api")
  /\ probe.pc = "resolved"
  /\ probe.timestamp = 0
  /\ probe.request.kind = "current"
  /\ probe.path = "current"
  /\ "data" \in DOMAIN probe.response.body
  /\ probe.response.body.data[1] # probe.response.body.current
  /\ probe.result.temp = probe.response.body.current.temp

----------------------------------------------------------------------------
(* C24: clearWeatherCache removes every entry whose key starts with the    *)
(* weather cache prefix and leaves every other entry unchanged; once it    *)
(* has resolved no weather key is left, so that getCachedWeatherData       *)
(* returns null for every key; with no weather key in the storage it       *)
(* resolves without issuing a remove.                                      *)
ClearResolves == clear.pc # "resolved" /\ clear'.pc = "resolved"

IssuesRemove ==
  \E i \in 1..Len(queue') : queue'[i].op = "removeKeys"

C24_ClearRemovesEveryWeatherEntry ==
  /\ [](\A k \in DOMAIN OtherEntries :
          k \in DOMAIN store /\ store[k] = OtherEntries[k])
  /\ [][ /\ ClearResolves => WeatherKeys(store') = {}
         /\ (ClearResolves /\ clear.pc = "awaitGetAll") => ~IssuesRemove
         /\ (clear.pc = "awaitGetAll" /\ clear'.pc # "awaitGetAll"
               /\ WeatherKeys(store) = {}) => ~IssuesRemove
       ]_vars

----------------------------------------------------------------------------
(* C25: decodePolyline terminates on every input string; every iteration   *)
(* of its while loop consumes at least two characters, so the list it      *)
(* returns is complete and has at most ceil(len / 2) coordinates; the      *)
(* empty string gives the empty list.                                      *)
Returned == ProbeIs("decodeRun") /\ probe.pc = "returned"

IterationEnds ==
  ProbeIs("decodeRun") /\ probe.pc = "lng" /\ probe'.pc = "while"

C25_DecodeTerminates ==
  /\ <>Returned
  /\ [](ProbeIs("decodeRun") =>
          /\ Len(probe.coordinates) <= (probe.len + 1) \div 2
          /\ Returned =>
               /\ probe.coordinates = decodePolyline(probe.input).coordinates
               /\ (probe.input = <<>> => probe.coordinates = <<>>))
  /\ [][IterationEnds => probe'.index >= probe.iterationStart + 2]_vars

C25_Witness ==
  /\ Returned
  /\ probe.len = 3
  /\ Len(probe.coordinates) = 2
  /\ probe.index = 4

----------------------------------------------------------------------------
(* C26: for every wind direction in [0, 360) and every segment bearing in  *)
(* [0, 360) the relativeWindAngle of calculateWindImpact lies in [0, 180], *)
(* and crosswindComponent is never negative.                               *)
C26_RelativeAngleWithinHalfTurn ==
  (/\ ProbeIs("wind")
   /\ probe.weather.wind_deg \in 0..359
   /\ calculateSegmentDirection(probe.segment) \in 0..359)
    => /\ probe.out.relativeWindAngle \in 0..180
       /\ probe.out.crosswindComponent >= 0

----------------------------------------------------------------------------
(* C27: the remove that getCachedWeatherData issues for an expired entry    *)
(* never deletes an entry that is not expired, under any interleaving of    *)
(* concurrent getWeatherData calls on the same key.                         *)
LazyRemoveServed == queue # <<>> /\ Head(queue).op = "remove"

C27_RemoveDeletesOnlyExpired ==
  [][LazyRemoveServed =>
       \A k \in DOMAIN store :
          k \notin DOMAIN store' => IsExpired(now, store[k].cachedAt)]_vars

----------------------------------------------------------------------------
(* C28: calculateTemperatureImpact reports the condition "Comfortable"     *)
(* exactly when optimal is true, that is when estimatedTimeImpact is 0, so *)
(* the summary names no temperature for a reading whose temperature impact *)
(* is zero.                                                                *)
C28_ComfortableIffOptimal ==
  ProbeIs("temperature") =>
    LET out == probe.out
        summary == generateWeatherSummary(
                     [temperature |-> out.condition, wind |-> "Calm",
                      humidity |-> "Comfortable", airDensity |-> "Normal"],
                     out.estimatedTimeImpact)
    IN /\ (out.condition = "Comfortable") = out.optimal
       /\ out.optimal = (out.estimatedTimeImpact = 0)
       /\ out.estimatedTimeImpact = 0 =>
            summary = "Effort was made in ideal conditions with minimal impact on performance."

----------------------------------------------------------------------------
(* C29: getValidAccessToken calls refreshAccessToken exactly when          *)
(* now >= received_at + expires_in - 300 and then returns the refreshed    *)
(* token; otherwise it returns the stored token and sends no refresh       *)
(* request, so a stored token it returns is more than 5 minutes from its   *)
(* expiry; with no stored auth data it rejects and sends no request; a     *)
(* successful refresh stores auth data that has a refresh_token, the old   *)
(* one when the response carries none.                                     *)
AuthDataAnswered ==
  /\ ProbeIs("auth")
  /\ probe.pc = "awaitGetAuthData"
  /\ probe'.pc # "awaitGetAuthData"
  /\ probe'.error # "storage"

C29_RefreshExactlyWhenNearExpiry ==
  /\ [][AuthDataAnswered =>
          IF STORAGE_KEY \in DOMAIN store
            THEN LET a == store[STORAGE_KEY]
                     due == now \div 1000 >= a.received_at + a.expires_in - 300
                 IN /\ probe'.refreshed = due
                    /\ ~due => /\ probe'.pc = "resolved"
                               /\ probe'.result = a.access_token
                               /\ probe'.requests = 0
                               /\ now \div 1000 + 300 < a.received_at + a.expires_in
            ELSE /\ probe'.pc = "rejected"
                 /\ probe'.requests = 0]_vars
  /\ [](ProbeIs("auth") =>
          /\ probe.requests > 0 => probe.refreshed
          /\ (probe.pc = "resolved" /\ probe.refreshed) =>
               /\ probe.requests = 1
               /\ probe.result = probe.newAuthData.access_token
               /\ probe.result \in {b.access_token : b \in RefreshBodies})
  /\ [][(STORAGE_KEY \in DOMAIN store' /\ store' # store) =>
          /\ "refresh_token" \in DOMAIN store'[STORAGE_KEY]
          /\ store'[STORAGE_KEY].refresh_token =
               IF "refresh_token" \in DOMAIN probe.response
                 THEN probe.response.refresh_token
                 ELSE probe.authData.refresh_token
          /\ store'[STORAGE_KEY].access_token = probe'.result]_vars

C29_Witness ==
  /\ ProbeIs("auth")
  /\ probe.pc = "resolved"
  /\ probe.refreshed
  /\ probe.authData.expires_in = 900
  /\ probe.result = "tok2"
  /\ STORAGE_KEY \in DOMAIN store
  /\ store[STORAGE_KEY].refresh_token = "ref"
  /\ store[STORAGE_KEY].received_at = 3600

----------------------------------------------------------------------------
(* C30: in analyzeWeather, for a climb (average_grade > 3) a headwind only *)
(* has its negative impact reduced: the wind factor in the score stays     *)
(* <= 0 and is smaller in magnitude than the -1 of other segments; it is   *)
(* never a positive contribution.                                          *)
C30_ClimbHeadwindStaysNonPositive ==
  (/\ ProbeIs("assist")
   /\ probe.segment.average_grade > 30
   /\ calculateWindAssistance(probe.weather.current.wind, probe.segment) = -10)
    => /\ probe.out.factors.wind <= 0
       /\ probe.out.factors.wind > -10
====
